---- MODULE Spec2Model ----
(***************************************************************************)
(* A model of the SmartPlanner study scheduler: the hour allocator         *)
(* (models/scheduler.py allocate_hours), the schedule generator            *)
(* (StudyScheduler), the regeneration route (app/routes/scheduler.py) and  *)
(* the missed-session job (models/missed_sessions.py).                     *)
(*                                                                         *)
(* Units.  Datetimes are whole minutes since 00:00 UTC of day 0; day 0 is  *)
(* a Monday, so weekday(d) = d % 7 as Python's date.weekday().  Hours that *)
(* the code keeps as floats (caps, remaining allocation, hours allocated)  *)
(* are kept in minutes; every duration drawn below is a multiple of 15     *)
(* minutes, for which the code's float arithmetic is exact.  Weights are   *)
(* kept as three times the code's float weight (the code scales a task's   *)
(* urgency by priority / 3.0); proportional shares are computed exactly.   *)
(***************************************************************************)
EXTENDS Integers, Sequences, FiniteSets, TLC

(***************************************************************************)
(* Arithmetic and sequence helpers (Python built-ins).                     *)
(***************************************************************************)
Max(a, b) == IF a >= b THEN a ELSE b

Min(a, b) == IF a <= b THEN a ELSE b

\* math.ceil(a / b) for b > 0
CeilDiv(a, b) == -((-a) \div b)

\* int(a / b) for b > 0: truncation toward zero
TruncDiv(a, b) == IF a >= 0 THEN a \div b ELSE -((-a) \div b)

RECURSIVE Gcd(_, _)
\* math.gcd
Gcd(a, b) == IF b = 0 THEN a ELSE Gcd(b, a % b)

Range(s) == {s[i] : i \in DOMAIN s}

RECURSIVE SumFn(_, _)
\* sum(f[x] for x in S)
SumFn(f, S) ==
    IF S = {} THEN 0
    ELSE LET x == CHOOSE y \in S : TRUE IN f[x] + SumFn(f, S \ {x})

\* lexicographic comparison of two integer tuples of the same length
RECURSIVE LexLess(_, _)
LexLess(a, b) ==
    IF a = <<>> THEN FALSE
    ELSE IF Head(a) # Head(b) THEN Head(a) < Head(b)
    ELSE LexLess(Tail(a), Tail(b))

RECURSIVE InsertByKey(_, _)
\* x goes before the first element whose key is strictly greater: equal keys
\* keep their order of arrival
InsertByKey(x, t) ==
    IF t = <<>> THEN <<x>>
    ELSE IF LexLess(x.key, Head(t).key) THEN <<x>> \o t
    ELSE <<Head(t)>> \o InsertByKey(x, Tail(t))

RECURSIVE StableSortByKey(_)
\* sorted(s, key=...): ascending in the records' key field, stable.  Python's
\* reverse=True keeps the original order of equal keys too, so a descending
\* sort is this sort on negated keys.
StableSortByKey(s) ==
    IF s = <<>> THEN <<>>
    ELSE InsertByKey(s[Len(s)], StableSortByKey(SubSeq(s, 1, Len(s) - 1)))

\* sorted(S) for a set of integers
SortedSeqOfSet(S) ==
    IF S = {} THEN <<>>
    ELSE LET lo == CHOOSE x \in S : \A y \in S : x <= y
             hi == CHOOSE x \in S : \A y \in S : y <= x
         IN SelectSeq([i \in 1..(hi - lo + 1) |-> lo + i - 1], LAMBDA x : x \in S)

\* [x for x in s if x in S], order kept
FilterSeq(s, S) == SelectSeq(s, LAMBDA x : x \in S)

(***************************************************************************)
(* Bounds of the model.                                                    *)
(***************************************************************************)
MaxSubjects == 3

MaxWeight == 2

MaxTotalHours == 4

MaxCapHalfHours == 3

(***************************************************************************)
(* State.                                                                  *)
(***************************************************************************)
VARIABLES
    pc,           \* position of the operation sequence being modelled
    weight_ids,   \* allocate_hours: the keys of weights, in dict order
    weights,      \* allocate_hours: subject id -> weight
    total_hours,  \* allocate_hours: hours to allocate
    caps,         \* allocate_hours: subject id -> cap, in minutes (60 * hours)
    allocation,   \* allocate_hours: the returned dict
    now,          \* datetime.now(timezone.utc)
    user,         \* current_user: id, timezone, study_hours_per_week,
                  \* preferred_study_times
    pref,         \* current_user.study_preference, or NoPref
    subjects,     \* Subject rows of the user, in query order
    tasks,        \* Task rows, in query order
    constraints,  \* UserConstraint rows
    class_blocks, \* ClassBlock rows
    sessions,     \* StudySession rows (of every user)
    makeup_queue, \* MakeupQueue rows (of every user)
    next_id,      \* the next StudySession primary key
    last          \* the last operation: its name, arguments and result

allocVars == <<weight_ids, weights, total_hours, caps, allocation>>

profileVars == <<user, pref, subjects, tasks, constraints, class_blocks>>

worldVars == <<profileVars, makeup_queue>>

vars == <<pc, allocVars, now, worldVars, sessions, next_id, last>>

(***************************************************************************)
(* models/scheduler.py: the hour allocator.                                *)
(*                                                                         *)
(* The code computes every share as the float (weight / total) * hours.    *)
(* The rounding of that product is a function of the operands only, but it *)
(* can go either way, so wherever the exact values tie the outcome is a    *)
(* choice (fp): fp.up holds the weights whose computed proportional share  *)
(* comes out above a cap that equals the exact share, and fp.rank orders   *)
(* the weights whose exact fractional remainders are equal (a higher rank  *)
(* is the larger computed remainder).  Subjects of equal weight get the    *)
(* same floats and so stay in dict order.                                  *)
(***************************************************************************)
ExactFp == [up |-> {}, rank |-> <<>>]

RankOf(fp, wt) == IF wt \in DOMAIN fp.rank THEN fp.rank[wt] ELSE 0

\* the subjects whose cap is below their proportional share
separate_capped_subjects(ids, w, total, cap, fp) ==
    LET total_weight == SumFn(w, Range(ids))
    IN {s \in Range(ids) :
            /\ s \in DOMAIN cap
            /\ \/ cap[s] * total_weight < w[s] * total * 60
               \/ /\ cap[s] * total_weight = w[s] * total * 60
                  /\ w[s] \in fp.up}

\* the sum of the caps of the capped subjects, in minutes
hours_consumed_by_caps(ids, w, total, cap, fp) ==
    SumFn(cap, separate_capped_subjects(ids, w, total, cap, fp))

\* the allocator without its last step: the floors alone, the leftover units
\* never handed out
allocate_floors_only(uids, w, remaining_hours, fp) ==
    IF uids = <<>> \/ remaining_hours <= 0 THEN <<>>
    ELSE
      LET U == Range(uids)
          tw == SumFn(w, U)
      IN [s \in U |-> IF tw > 0 THEN (w[s] * remaining_hours) \div tw ELSE 0]

\* an allocator that rounds every share up and takes the excess back from the
\* last subject
allocate_round_up_fix_last(uids, w, remaining_hours, fp) ==
    IF uids = <<>> \/ remaining_hours <= 0 THEN <<>>
    ELSE
      LET U == Range(uids)
          tw == SumFn(w, U)
          up == [s \in U |-> IF tw > 0 THEN CeilDiv(w[s] * remaining_hours, tw) ELSE 0]
          final == uids[Len(uids)]
      IN [s \in U |-> IF s = final
                      THEN remaining_hours - SumFn(up, U \ {final})
                      ELSE up[s]]

\* an allocator that hands every leftover unit to the one subject with the
\* largest remainder
allocate_leftover_to_one(uids, w, remaining_hours, fp) ==
    IF uids = <<>> \/ remaining_hours <= 0 THEN <<>>
    ELSE
      LET U == Range(uids)
          tw == SumFn(w, U)
          floors == [s \in U |-> IF tw > 0 THEN (w[s] * remaining_hours) \div tw ELSE 0]
          rem == [s \in U |-> IF tw > 0 THEN (w[s] * remaining_hours) % tw ELSE 0]
          top == CHOOSE s \in U : \A t \in U : rem[s] >= rem[t]
      IN [s \in U |-> IF s = top
                      THEN remaining_hours - SumFn(floors, U \ {top})
                      ELSE floors[s]]

allocate_by_largest_remainder(uids, w, remaining_hours, fp) ==
    IF uids = <<>> \/ remaining_hours <= 0 THEN <<>>
    ELSE
      LET U == Range(uids)
          uncapped_total_weight == SumFn(w, U)
          \* exact = num / uncapped_total_weight
          num == [s \in U |-> IF uncapped_total_weight > 0
                              THEN w[s] * remaining_hours ELSE 0]
          floors == [s \in U |-> IF uncapped_total_weight > 0
                                 THEN num[s] \div uncapped_total_weight ELSE 0]
          remainders == [s \in U |-> IF uncapped_total_weight > 0
                                     THEN num[s] % uncapped_total_weight ELSE 0]
          still_remaining == remaining_hours - SumFn(floors, U)
          sorted_by_remainder ==
              StableSortByKey([i \in DOMAIN uids |->
                  [sid |-> uids[i],
                   key |-> << -remainders[uids[i]],
                              -RankOf(fp, w[uids[i]]),
                              -w[uids[i]] >>]])
          extra == {sorted_by_remainder[i].sid :
                      i \in 1..Min(still_remaining, Len(sorted_by_remainder))}
      IN [s \in U |-> floors[s] + (IF s \in extra THEN 1 ELSE 0)]

\* int(total_hours - hours_consumed_by_caps)
remaining_after_caps(ids, w, total, cap, fp) ==
    TruncDiv(total * 60 - hours_consumed_by_caps(ids, w, total, cap, fp), 60)

\* an even split that rounds the hours of each subject up
hours_each_rounded_up(ids, total) == CeilDiv(total, Len(ids))

\* hours_each = total_hours // len(weights)
hours_each(ids, total) == total \div Len(ids)

allocate_hours(ids, w, total, cap, fp) ==
    IF ids = <<>> \/ total <= 0 THEN <<>>
    ELSE IF SumFn(w, Range(ids)) = 0
    THEN [s \in Range(ids) |-> hours_each(ids, total)]
    ELSE
      LET capped == separate_capped_subjects(ids, w, total, cap, fp)
          uncapped_ids == SelectSeq(ids, LAMBDA s : s \notin capped)
          remaining_hours == remaining_after_caps(ids, w, total, cap, fp)
          uncapped_allocation ==
              allocate_by_largest_remainder(uncapped_ids, w, remaining_hours, fp)
      IN [s \in Range(ids) |->
            IF s \in capped THEN TruncDiv(cap[s], 60)
            ELSE IF s \in DOMAIN uncapped_allocation THEN uncapped_allocation[s]
            ELSE 0]

\* the weights whose exact share equals their subject's cap
ShareTies(ids, w, total, cap) ==
    LET total_weight == SumFn(w, Range(ids))
    IN {w[s] : s \in {t \in Range(ids) \cap DOMAIN cap :
                        /\ w[t] > 0
                        /\ cap[t] * total_weight = w[t] * total * 60}}

\* the weights whose exact fractional remainder is shared with another weight
RemainderTies(uids, w, remaining_hours) ==
    LET U == Range(uids)
        tw == SumFn(w, U)
        rem(s) == (w[s] * remaining_hours) % tw
    IN IF uids = <<>> \/ remaining_hours <= 0 \/ tw = 0 THEN {}
       ELSE {w[s] : s \in {t \in U : /\ rem(t) # 0
                                     /\ \E u \in U : /\ w[u] # w[t]
                                                     /\ rem(u) = rem(t)}}

Rankings(S) ==
    IF S = {} THEN {<<>>}
    ELSE {r \in [S -> 0..(Cardinality(S) - 1)] :
            \A a, b \in S : a # b => r[a] # r[b]}

\* the rounding outcomes the floats can produce on these inputs
FloatOutcomes(ids, w, total, cap) ==
    IF ids = <<>> \/ total <= 0 \/ SumFn(w, Range(ids)) = 0 THEN {ExactFp}
    ELSE UNION {
        LET upfp == [up |-> up, rank |-> <<>>]
            capped == separate_capped_subjects(ids, w, total, cap, upfp)
            uids == SelectSeq(ids, LAMBDA s : s \notin capped)
            rh == remaining_after_caps(ids, w, total, cap, upfp)
        IN {[up |-> up, rank |-> r] : r \in Rankings(RemainderTies(uids, w, rh))}
        : up \in SUBSET ShareTies(ids, w, total, cap)}

(***************************************************************************)
(* models/database.py: rows and their optional values.                     *)
(***************************************************************************)
\* None in a nullable DateTime column
NoDate == -1

\* None in StudySession.task_id
NoTask == 0

\* user.study_preference when the user has no StudyPreference row
NoPref == [none |-> TRUE]

NoOp == [op |-> "none"]

\* User.preferred_study_times default, before json.dumps
DefaultPreferredTimes ==
    [morning |-> FALSE, afternoon |-> FALSE, evening |-> TRUE, night |-> FALSE]

\* the column User.preferred_study_times is a text: kind "object" is the JSON
\* text of a map (value), "array" the JSON text of a value that is no map,
\* "invalid" a text json.loads rejects, "null" an empty column
json_dumps(preferences_dict) == [kind |-> "object", value |-> preferences_dict]

MinutesPerDay == 1440

\* datetime.date(), as a day number
DateOf(t) == t \div MinutesPerDay

\* datetime.time(), as minutes after midnight
TimeOf(t) == t % MinutesPerDay

\* datetime.hour
HourOf(t) == TimeOf(t) \div 60

\* date.weekday(): 0 = Monday ... 6 = Sunday
Weekday(d) == d % 7

(***************************************************************************)
(* utils/timezone_utils.py, for a zone at a fixed offset (minutes east).   *)
(***************************************************************************)
utc_to_local(t, tz) == t + tz

localize_to_utc(t, tz) == t - tz

(***************************************************************************)
(* models/scheduler.py: StudyScheduler, preferences and candidate slots.   *)
(***************************************************************************)
\* __init__: json.loads(user.preferred_study_times) yields a map or another
\* value; the default map when json.loads raises
preferred_times_kind ==
    IF user.preferred_study_times.kind \in {"object", "array"}
    THEN user.preferred_study_times.kind ELSE "object"

preferred_times ==
    IF user.preferred_study_times.kind = "object"
    THEN user.preferred_study_times.value
    ELSE [morning |-> FALSE, afternoon |-> FALSE, evening |-> TRUE,
          night |-> FALSE]

get_session_length ==
    IF pref # NoPref THEN pref.preferred_session_length ELSE 60

get_break_duration ==
    IF pref # NoPref THEN pref.break_duration ELSE 15

get_max_consecutive_hours ==
    IF pref # NoPref THEN pref.max_consecutive_hours ELSE 2

RECURSIVE HalveAbove30(_)
HalveAbove30(m) == IF m > 30 THEN HalveAbove30(m \div 2) ELSE m

\* the slot size from the session length and the break: the gcd with the
\* break and the 30-minute buffer, at least 5
slot_minutes_of(session_minutes, break_minutes) ==
    LET a == IF break_minutes > 0 THEN Gcd(session_minutes, break_minutes)
             ELSE session_minutes
        b == Gcd(a, 30)
        c == IF b <= 0 THEN 5 ELSE b
    IN Max(5, HalveAbove30(c))

get_time_slot_minutes ==
    slot_minutes_of(IF get_session_length # 0 THEN get_session_length ELSE 60,
                    get_break_duration)

get_time_of_day_ranges ==
    [morning |-> <<5, 11>>, afternoon |-> <<12, 16>>,
     evening |-> <<17, 21>>, night |-> <<22, 4>>]

\* _extend_range: every slot start from start_hour:00 to end_hour:00 inclusive
range_starts(d, start_hour, end_hour, slot_minutes) ==
    {d * MinutesPerDay + start_hour * 60 + k * slot_minutes :
        k \in 0..(((end_hour - start_hour) * 60) \div slot_minutes)}

extend_range(d, start_hour, end_hour) ==
    range_starts(d, start_hour, end_hour, get_time_slot_minutes)

\* the preferred slot starts of a day, whatever the day of the week
available_hours_every_day(d) ==
    SortedSeqOfSet(UNION {
        LET r == get_time_of_day_ranges[tod]
        IN IF r[1] <= r[2] THEN extend_range(d, r[1], r[2])
           ELSE extend_range(d, r[1], 23) \cup extend_range(d, 0, r[2])
        : tod \in {x \in DOMAIN preferred_times : preferred_times[x]}})

get_available_hours(d) ==
    IF Weekday(d) >= 5 /\ pref # NoPref /\ ~pref.weekend_study THEN <<>>
    ELSE SortedSeqOfSet(UNION {
            LET r == get_time_of_day_ranges[tod]
            IN IF r[1] <= r[2] THEN extend_range(d, r[1], r[2])
               ELSE extend_range(d, r[1], 23) \cup extend_range(d, 0, r[2])
            : tod \in {x \in DOMAIN preferred_times : preferred_times[x]}})

\* get_available_hours raises: AttributeError when preferred_times has no
\* items(), KeyError when a preferred key is no time of day
available_hours_raise(d) ==
    /\ ~(Weekday(d) >= 5 /\ pref # NoPref /\ ~pref.weekend_study)
    /\ \/ preferred_times_kind = "array"
       \/ \E x \in DOMAIN preferred_times :
             preferred_times[x] /\ x \notin DOMAIN get_time_of_day_ranges

is_time_blocked_by_constraints(db, t) ==
    LET day_of_week == Weekday(DateOf(t))
        check_time == TimeOf(t)
    IN \/ \E c \in constraints :
            /\ c.user_id = user.id
            /\ c.day_of_week = day_of_week
            /\ c.is_hard
            /\ c.start_time <= check_time
            /\ check_time < c.end_time
       \/ \E b \in class_blocks :
            /\ b.user_id = user.id
            /\ b.day_of_week = day_of_week
            /\ b.start_time <= check_time
            /\ check_time < b.end_time
       \/ \E x \in db :
            /\ x.user_id = user.id
            /\ x.locked
            /\ x.start_time <= t
            /\ x.end_time > t

\* the instants start, start + slot, ... before start + minutes
StepsOf(start, minutes, slot_minutes) ==
    {start + k * slot_minutes : k \in 0..(CeilDiv(minutes, slot_minutes) - 1)}

SlotSteps(start, minutes) == StepsOf(start, minutes, get_time_slot_minutes)

filter_blocked_hours(db, d, available_slots) ==
    SelectSeq(available_slots, LAMBDA start_time :
        /\ DateOf(start_time) = d
        /\ ~is_time_blocked_by_constraints(db, start_time)
        /\ \A check_time \in SlotSteps(start_time, get_session_length) :
              ~is_time_blocked_by_constraints(db, check_time))

(***************************************************************************)
(* Booked slots.  The set holds (hour, minute) tuples, written             *)
(* <<"hm", minutes after midnight>>, and, from _build_booked_slots, whole  *)
(* datetimes, written <<"dt", t>>; the lookups are by tuple.               *)
(***************************************************************************)
build_booked_slots(scheduled_sessions, d) ==
    UNION {{<<"dt", t>> : t \in scheduled_sessions[i].start_time ..
                                 (scheduled_sessions[i].end_time - 1)}
           : i \in {j \in DOMAIN scheduled_sessions :
                       DateOf(scheduled_sessions[j].start_time) = d}}

mark_time_as_booked(booked_slots, start_time, end_time) ==
    booked_slots \cup
        {<<"hm", TimeOf(t)>> : t \in SlotSteps(start_time, end_time - start_time)}

is_slot_available(booked_slots, start_time, duration_minutes) ==
    \A t \in SlotSteps(start_time, duration_minutes) :
        <<"hm", TimeOf(t)>> \notin booked_slots

\* the break after a session that ends at end_time, booked when there is one
book_break(booked_slots, end_time) ==
    IF get_break_duration > 0
    THEN mark_time_as_booked(booked_slots, end_time, end_time + get_break_duration)
    ELSE booked_slots

\* a placed session and its break, booked
book_session(booked_slots, start_time, end_time) ==
    book_break(mark_time_as_booked(booked_slots, start_time, end_time), end_time)

(***************************************************************************)
(* Weights, caps and the weekly allocation.                                *)
(***************************************************************************)
\* Task.query.filter_by(subject_id=..., completed=False).all()
incomplete_tasks(subject_id) ==
    SelectSeq(tasks, LAMBDA t : t.subject_id = subject_id /\ ~t.completed)

\* task.estimated_time if task.estimated_time and task.estimated_time > 0
\* else session_minutes
estimate_or(task, session_minutes) ==
    IF task.estimated_time > 0 THEN task.estimated_time ELSE session_minutes

\* get_session_length(), 60 when it is not positive
positive_session_minutes ==
    IF get_session_length <= 0 THEN 60 ELSE get_session_length

\* _get_exam_weight that counts an exam of today as one within 7 days
exam_weight_from_today(subject, today) ==
    IF subject.exam_date = NoDate THEN 0
    ELSE LET days_to_exam == DateOf(subject.exam_date) - today
         IN IF days_to_exam < 0 THEN 0
            ELSE IF days_to_exam <= 7 THEN 10
            ELSE IF days_to_exam <= 14 THEN 5
            ELSE IF days_to_exam <= 30 THEN 2
            ELSE 0

get_exam_weight(subject, today) ==
    IF subject.exam_date = NoDate THEN 0
    ELSE LET days_to_exam == DateOf(subject.exam_date) - today
         IN IF days_to_exam <= 0 THEN 0
            ELSE IF days_to_exam <= 7 THEN 10
            ELSE IF days_to_exam <= 14 THEN 5
            ELSE IF days_to_exam <= 30 THEN 2
            ELSE 0

\* the urgency of one task, times 3
task_urgency3(task, today) ==
    IF task.deadline = NoDate THEN 0
    ELSE LET days_to_deadline == DateOf(task.deadline) - today
             urgency == IF days_to_deadline < 0 THEN 100
                        ELSE IF days_to_deadline = 0 THEN 90
                        ELSE IF days_to_deadline = 1 THEN 50
                        ELSE IF days_to_deadline <= 3 THEN 25
                        ELSE IF days_to_deadline <= 7 THEN 10
                        ELSE 0
         IN IF task.priority # 0 THEN urgency * task.priority ELSE urgency * 3

RECURSIVE MaxOfSeq(_, _)
MaxOfSeq(s, acc) ==
    IF s = <<>> THEN acc ELSE MaxOfSeq(Tail(s), Max(acc, Head(s)))

\* _get_task_urgency_weight, times 3
get_task_urgency_weight3(subject, today) ==
    LET ts == incomplete_tasks(subject.id)
    IN MaxOfSeq([i \in DOMAIN ts |-> task_urgency3(ts[i], today)], 0)

subject_ids == [i \in DOMAIN subjects |-> subjects[i].id]

subject_map == [sid \in Range(subject_ids) |->
                  CHOOSE x \in Range(subjects) : x.id = sid]

\* calculate_subject_weights, every weight times 3
calculate_subject_weights ==
    LET today == DateOf(now)
    IN [sid \in Range(subject_ids) |->
          LET subject == subject_map[sid]
          IN 3 * (subject.priority * 2 + subject.difficulty
                    + get_exam_weight(subject, today))
               + get_task_urgency_weight3(subject, today)]

RECURSIVE SumSeq(_)
SumSeq(s) == IF s = <<>> THEN 0 ELSE Head(s) + SumSeq(Tail(s))

\* _calculate_workload_caps, in minutes
calculate_workload_caps ==
    LET session_minutes == positive_session_minutes
        total_minutes(sid) ==
            LET ts == incomplete_tasks(sid)
            IN SumSeq([i \in DOMAIN ts |-> estimate_or(ts[i], session_minutes)])
        capped == {sid \in Range(subject_ids) : total_minutes(sid) > 0}
    IN [sid \in capped |->
          CeilDiv(total_minutes(sid), session_minutes) * session_minutes]

\* _get_urgent_task_minutes_by_subject: only the subjects with a positive total
get_urgent_task_minutes_by_subject(due_date) ==
    LET session_minutes == positive_session_minutes
        total(sid) ==
            LET ts == SelectSeq(incomplete_tasks(sid), LAMBDA t :
                        t.deadline # NoDate /\ DateOf(t.deadline) <= due_date)
            IN SumSeq([i \in DOMAIN ts |-> estimate_or(ts[i], session_minutes)])
    IN [sid \in {x \in Range(subject_ids) : total(x) > 0} |-> total(sid)]

\* calculate_subject_allocation: subject id -> weekly hours
calculate_subject_allocation(end_date, fp) ==
    LET allocated == allocate_hours(subject_ids, calculate_subject_weights,
                                    user.study_hours_per_week,
                                    calculate_workload_caps, fp)
        session_minutes == positive_session_minutes
        urgent_minutes_total == get_urgent_task_minutes_by_subject(DateOf(end_date))
        required_hours(sid) == CeilDiv(urgent_minutes_total[sid], session_minutes)
        current_hours(sid) == IF sid \in DOMAIN allocated THEN allocated[sid] ELSE 0
    IN [sid \in DOMAIN allocated \cup DOMAIN urgent_minutes_total |->
          IF sid \in DOMAIN urgent_minutes_total
             /\ required_hours(sid) > current_hours(sid)
          THEN required_hours(sid)
          ELSE allocated[sid]]

\* the keys of a dict filled in subject order
keys_in_subject_order(d) == FilterSeq(subject_ids, DOMAIN d)

\* the rounding outcomes of the run's allocate_hours call
ScheduleFloatOutcomes ==
    FloatOutcomes(subject_ids, calculate_subject_weights,
                  user.study_hours_per_week, calculate_workload_caps)

\* _calculate_daily_allocation: subject id -> hours per day
calculate_daily_allocation(total_subject_allocation, date_range_days) ==
    LET days_per_week == 5
        effective_days == IF date_range_days < 7
                          THEN Min(days_per_week, date_range_days)
                          ELSE days_per_week
    IN [sid \in DOMAIN total_subject_allocation |->
          IF effective_days > 0
          THEN CeilDiv(total_subject_allocation[sid], effective_days)
          ELSE total_subject_allocation[sid]]

(***************************************************************************)
(* build_daily_schedule.  A generated session is a record subject_id,      *)
(* start_time, end_time, task_id (NoTask when the dict has no 'task_id').  *)
(* remaining_allocation is kept in minutes; task_allocated_minutes is a    *)
(* function over the task ids, 0 where the defaultdict has no entry.       *)
(***************************************************************************)
max_task_chunk == 120

RECURSIVE FlattenSeq(_)
FlattenSeq(ss) == IF ss = <<>> THEN <<>> ELSE Head(ss) \o FlattenSeq(Tail(ss))

\* the least element of a set of positive indices, 0 when it is empty
MinOrZero(S) == IF S = {} THEN 0 ELSE CHOOSE i \in S : \A j \in S : i <= j

\* index of the first start in slots that is free for the duration, 0 when
\* there is none
first_free_slot(slots, booked_slots, duration_minutes) ==
    MinOrZero({i \in DOMAIN slots :
                  is_slot_available(booked_slots, slots[i], duration_minutes)})

\* list.pop(i)
RemoveAt(s, i) == [j \in 1..(Len(s) - 1) |-> IF j < i THEN s[j] ELSE s[j + 1]]

task_ids == {tasks[i].id : i \in DOMAIN tasks}

\* PHASE 1: the urgent tasks of the day, highest urgency score first
urgent_tasks_of_day(target_date, task_allocated_minutes) ==
    LET base_session_minutes == get_session_length
        tomorrow == target_date + 1
        of_subject(subject) ==
            LET ts == SelectSeq(tasks, LAMBDA t :
                        /\ t.subject_id = subject.id
                        /\ ~t.completed
                        /\ t.user_id = user.id
                        /\ t.deadline # NoDate
                        /\ DateOf(t.deadline) <= tomorrow
                        /\ DateOf(t.deadline) >= target_date
                        /\ task_allocated_minutes[t.id]
                              < estimate_or(t, base_session_minutes))
            IN [i \in DOMAIN ts |->
                  LET days_until_due == DateOf(ts[i].deadline) - target_date
                      urgency_score == 100 - days_until_due * 10
                                         + ts[i].priority * 5
                  IN [task |-> ts[i],
                      subject_id |-> subject.id,
                      estimated_minutes |->
                          estimate_or(ts[i], base_session_minutes)
                            - task_allocated_minutes[ts[i].id],
                      urgency_score |-> urgency_score,
                      key |-> << -urgency_score >>]]
    IN StableSortByKey(FlattenSeq([i \in DOMAIN subjects |-> of_subject(subjects[i])]))

RECURSIVE ChunksOf(_, _)
ChunksOf(chunk_size, remaining) ==
    IF remaining <= 0 THEN <<>>
    ELSE <<Min(chunk_size, remaining)>>
           \o ChunksOf(chunk_size, remaining - Min(chunk_size, remaining))

task_chunks(estimated) ==
    IF estimated > 200
    THEN ChunksOf(Min(estimated \div 2, max_task_chunk), estimated)
    ELSE <<estimated>>

\* what the chunk loop of one pass over a task leaves behind
chunk_result(st, task_completed, switched_subject) ==
    [st |-> st, task_completed |-> task_completed,
     switched_subject |-> switched_subject]

\* the slots that are free for the duration (the list is filtered in place)
with_free_slots(st, duration_minutes) ==
    [st EXCEPT !.available_slots = SelectSeq(@, LAMBDA s :
                   is_slot_available(st.booked_slots, s, duration_minutes))]

RECURSIVE schedule_chunks(_, _, _, _)
\* after a chunk is placed: the task is done, or the session is counted and
\* the loop goes on, unless two sessions in a row let another subject in
after_chunk(placed, urgent_tasks, task_info, chunks, slot_index) ==
    LET task == task_info.task
        subject_id == task_info.subject_id
    IN
    IF placed.task_allocated_minutes[task.id]
          >= estimate_or(task, get_session_length)
    THEN chunk_result(placed, TRUE, FALSE)
    ELSE
      LET counted == [placed EXCEPT
              !.available_slots = RemoveAt(@, slot_index),
              !.task_sessions_per_subject[subject_id] = @ + 1]
          others == {i \in (placed.urgent_task_index + 1)..(Len(urgent_tasks) - 1) :
              LET next_info == urgent_tasks[i + 1]
              IN /\ next_info.subject_id # subject_id
                 /\ next_info.subject_id \in DOMAIN counted.remaining_allocation
                 /\ counted.remaining_allocation[next_info.subject_id] > 0}
      IN
      IF counted.task_sessions_per_subject[subject_id] >= 2 /\ others # {}
      THEN chunk_result([counted EXCEPT
                            !.urgent_task_index = MinOrZero(others) - 1,
                            !.task_sessions_per_subject[subject_id] = 0],
                        FALSE, TRUE)
      ELSE schedule_chunks(counted, urgent_tasks, task_info, Tail(chunks))

\* a placed chunk that is left out of the ledger
record_chunk_dropped(task_allocated_minutes, task_id, chunk_minutes) ==
    task_allocated_minutes

\* self.task_allocated_minutes[task.id] += chunk_minutes
record_chunk(task_allocated_minutes, task_id, chunk_minutes) ==
    [task_allocated_minutes EXCEPT ![task_id] = @ + chunk_minutes]

\* one chunk at the slot of index slot_index of the free slots, if there is one
place_chunk(st, urgent_tasks, task_info, chunks, chunk_minutes, slot_index) ==
    IF st.available_slots = <<>> \/ slot_index = 0
    THEN chunk_result(st, FALSE, FALSE)
    ELSE
      LET task == task_info.task
          subject_id == task_info.subject_id
          slot_start == st.available_slots[slot_index]
          slot_end == slot_start + chunk_minutes
          session == [subject_id |-> subject_id, start_time |-> slot_start,
                      end_time |-> slot_end, task_id |-> task.id]
      IN after_chunk(
             [st EXCEPT
                !.day_sessions = Append(@, session),
                !.booked_slots = book_session(@, slot_start, slot_end),
                !.remaining_allocation[subject_id] = @ - chunk_minutes,
                !.task_allocated_minutes = record_chunk(@, task.id, chunk_minutes)],
             urgent_tasks, task_info, chunks, slot_index)

\* a chunk of chunk_minutes, looked for among the slots free for it
find_chunk_slot(st, urgent_tasks, task_info, chunks, chunk_minutes) ==
    place_chunk(st, urgent_tasks, task_info, chunks, chunk_minutes,
                first_free_slot(st.available_slots, st.booked_slots,
                                chunk_minutes))

\* the chunk loop of one pass over a task (for chunk_idx, chunk_minutes in ...)
schedule_chunks(st, urgent_tasks, task_info, chunks) ==
    LET task == task_info.task
        task_estimated == estimate_or(task, get_session_length)
        task_allocated == st.task_allocated_minutes[task.id]
        chunk_minutes == Min(Head(chunks), task_estimated - task_allocated)
    IN
    IF chunks = <<>> THEN chunk_result(st, FALSE, FALSE)
    ELSE IF task_allocated >= task_estimated THEN chunk_result(st, TRUE, FALSE)
    ELSE find_chunk_slot(with_free_slots(st, chunk_minutes), urgent_tasks,
                         task_info, chunks, chunk_minutes)

RECURSIVE schedule_urgent_tasks(_, _)
\* after the chunk loop: the next task when this one is done or gave way
after_urgent_task(r, urgent_tasks) ==
    schedule_urgent_tasks(
        IF r.task_completed \/ r.switched_subject
        THEN [r.st EXCEPT !.urgent_task_index = @ + 1]
        ELSE r.st,
        urgent_tasks)

\* the task at urgent_task_index, with the slots free for 30 minutes
schedule_urgent_task(st, urgent_tasks) ==
    LET task_info == urgent_tasks[st.urgent_task_index + 1]
    IN IF st.available_slots = <<>>
       THEN schedule_urgent_tasks([st EXCEPT !.urgent_task_index = @ + 1],
                                  urgent_tasks)
       ELSE after_urgent_task(
                schedule_chunks(st, urgent_tasks, task_info,
                                task_chunks(task_info.estimated_minutes)),
                urgent_tasks)

\* PHASE 2: the while loop over urgent_tasks
schedule_urgent_tasks(st, urgent_tasks) ==
    IF ~(st.urgent_task_index < Len(urgent_tasks)
         /\ st.urgent_iterations < Len(urgent_tasks) * 10)
    THEN st
    ELSE
      LET s1 == [st EXCEPT !.urgent_iterations = @ + 1]
          task_info == urgent_tasks[st.urgent_task_index + 1]
          task == task_info.task
          subject_id == task_info.subject_id
          is_urgent == task.deadline # NoDate
                          /\ DateOf(task.deadline) <= st.target_date + 1
          skip == [s1 EXCEPT !.urgent_task_index = @ + 1]
      IN
      IF subject_id \notin DOMAIN s1.remaining_allocation
      THEN schedule_urgent_tasks(skip, urgent_tasks)
      ELSE IF s1.remaining_allocation[subject_id] <= 0 /\ ~is_urgent
      THEN schedule_urgent_tasks(skip, urgent_tasks)
      ELSE schedule_urgent_task(with_free_slots(s1, 30), urgent_tasks)

\* a regular session of subject_id at the slot of index slot_index
place_session(st, subject_id, slot_index) ==
    LET base_session_minutes == get_session_length
        slot_start == st.available_slots[slot_index]
        slot_end == slot_start + base_session_minutes
        session == [subject_id |-> subject_id, start_time |-> slot_start,
                    end_time |-> slot_end, task_id |-> NoTask]
    IN [st EXCEPT
          !.day_sessions = Append(@, session),
          !.booked_slots = book_session(@, slot_start, slot_end),
          !.remaining_allocation[subject_id] = @ - base_session_minutes,
          !.available_slots = RemoveAt(@, slot_index)]

RECURSIVE schedule_round(_, _, _)
\* one session of the turn at the first free slot, then the rest of the turn
schedule_at(st, subject_id, sessions_to_schedule, slot_index) ==
    IF slot_index = 0 THEN st
    ELSE schedule_round(place_session(st, subject_id, slot_index),
                        subject_id, sessions_to_schedule - 1)

\* PHASE 3: the sessions of one turn of a regular subject
schedule_round(st, subject_id, sessions_to_schedule) ==
    IF sessions_to_schedule <= 0 \/ st.available_slots = <<>> THEN st
    ELSE schedule_at(st, subject_id, sessions_to_schedule,
                     first_free_slot(st.available_slots, st.booked_slots,
                                     get_session_length))

\* PHASE 3: the round-robin while loop over regular_subjects
RECURSIVE schedule_regular_subjects(_, _, _, _)
schedule_regular_subjects(st, regular_subjects, current_subject_index, regular_iterations) ==
    IF ~(/\ current_subject_index < Len(regular_subjects)
         /\ st.available_slots # <<>>
         /\ regular_iterations < Len(regular_subjects) * 50)
    THEN st
    \* with no allocation left the loop only advances the index until the
    \* iteration limit ends it
    ELSE IF \A i \in DOMAIN regular_subjects :
               st.remaining_allocation[regular_subjects[i]] <= 0
    THEN st
    ELSE
      LET subject_id == regular_subjects[current_subject_index + 1]
          next_index == (current_subject_index + 1) % Len(regular_subjects)
          base_session_minutes == get_session_length
      IN
      IF st.remaining_allocation[subject_id] <= 0
      THEN schedule_regular_subjects(st, regular_subjects, next_index,
                                     regular_iterations + 1)
      ELSE
        LET sessions_to_schedule ==
                Min(2, CeilDiv(st.remaining_allocation[subject_id],
                               base_session_minutes))
        IN schedule_regular_subjects(
               schedule_round(with_free_slots(st, base_session_minutes),
                              subject_id, sessions_to_schedule),
               regular_subjects, next_index, regular_iterations + 1)

\* sorted(remaining_allocation keys without an urgent task, key=-priority)
regular_subjects_of(allocation_keys, urgent_tasks) ==
    LET urgent_subjects == {urgent_tasks[i].subject_id : i \in DOMAIN urgent_tasks}
        regular == SelectSeq(allocation_keys, LAMBDA sid : sid \notin urgent_subjects)
        sorted == StableSortByKey([i \in DOMAIN regular |->
                      [sid |-> regular[i],
                       key |-> << -subject_map[regular[i]].priority >>]])
    IN [i \in DOMAIN sorted |-> sorted[i].sid]

\* the phases in the other order: the regular subjects are placed before the
\* urgent tasks
schedule_phases_regular_first(st, urgent_tasks, allocation_keys) ==
    schedule_urgent_tasks(
        schedule_regular_subjects(
            st, regular_subjects_of(allocation_keys, urgent_tasks), 0, 0),
        urgent_tasks)

\* PHASE 2 then PHASE 3 on the day's state
schedule_phases(st, urgent_tasks, allocation_keys) ==
    schedule_regular_subjects(
        schedule_urgent_tasks(st, urgent_tasks),
        regular_subjects_of(allocation_keys, urgent_tasks), 0, 0)

\* what build_daily_schedule hands back of the day's state
day_result(st) ==
    [day_sessions |-> st.day_sessions,
     task_allocated_minutes |-> st.task_allocated_minutes]

\* the day's schedule in the unblocked candidate starts; none when there is
\* no start (no start at all, or every start blocked)
schedule_in_slots(unblocked, d, subject_allocation, scheduled_sessions, task_allocated_minutes) ==
    IF unblocked = <<>>
    THEN [day_sessions |-> <<>>, task_allocated_minutes |-> task_allocated_minutes]
    ELSE day_result(schedule_phases(
             [available_slots |-> unblocked,
              booked_slots |-> build_booked_slots(scheduled_sessions, d),
              remaining_allocation |-> subject_allocation.val,
              day_sessions |-> <<>>,
              task_allocated_minutes |-> task_allocated_minutes,
              task_sessions_per_subject |-> [sid \in Range(subject_ids) |-> 0],
              urgent_task_index |-> 0,
              urgent_iterations |-> 0,
              target_date |-> d],
             urgent_tasks_of_day(d, task_allocated_minutes),
             subject_allocation.keys))

\* build_daily_schedule: the day's sessions and the updated task ledger.
\* subject_allocation is [keys |-> the dict's keys in order, val |-> minutes]
build_daily_schedule(db, d, subject_allocation, scheduled_sessions, task_allocated_minutes) ==
    schedule_in_slots(filter_blocked_hours(db, d, get_available_hours(d)), d,
                      subject_allocation, scheduled_sessions,
                      task_allocated_minutes)

(***************************************************************************)
(* generate_schedule.  hours_allocated is kept in minutes.                 *)
(***************************************************************************)
\* _calculate_today_allocation: [keys, val], val in minutes
calculate_today_allocation(total_subject_allocation, allocation_keys, hours_allocated, days_since_last_studied, daily_allocation, d) ==
    LET session_minutes == positive_session_minutes
        urgent_minutes_due == get_urgent_task_minutes_by_subject(d)
        remaining(sid) == total_subject_allocation[sid] * 60 - hours_allocated[sid]
        overdue == SelectSeq(allocation_keys, LAMBDA sid :
                       days_since_last_studied[sid] >= 2 /\ remaining(sid) > 0)
        overdue_subjects == StableSortByKey([i \in DOMAIN overdue |->
                       [sid |-> overdue[i],
                        key |-> << -days_since_last_studied[overdue[i]] >>]])
        first == [i \in DOMAIN overdue_subjects |-> overdue_subjects[i].sid]
        share(sid) == IF remaining(sid) > 0
                      THEN Min(daily_allocation[sid] * 60, remaining(sid))
                      ELSE 0
        urgent_minutes_remaining(sid) ==
            Max(0, urgent_minutes_due[sid] - hours_allocated[sid])
        urgent_hours_needed(sid) ==
            CeilDiv(urgent_minutes_remaining(sid), session_minutes)
    IN [keys |-> first \o SelectSeq(allocation_keys,
                                    LAMBDA sid : sid \notin Range(first)),
        val |-> [sid \in DOMAIN total_subject_allocation |->
                   IF /\ sid \in DOMAIN urgent_minutes_due
                      /\ urgent_minutes_remaining(sid) > 0
                      /\ urgent_hours_needed(sid) > 0
                   THEN Max(share(sid), urgent_hours_needed(sid) * 60)
                   ELSE share(sid)]]

\* _update_tracking: hours_allocated and days_since_last_studied after a day
update_tracking(daily_sessions, hours_allocated, days_since_last_studied) ==
    LET of(sid) == SelectSeq(daily_sessions, LAMBDA x : x.subject_id = sid)
    IN [hours_allocated |-> [sid \in DOMAIN hours_allocated |->
            hours_allocated[sid]
              + SumSeq([i \in DOMAIN of(sid) |->
                           of(sid)[i].end_time - of(sid)[i].start_time])],
        days_since_last_studied |-> [sid \in DOMAIN days_since_last_studied |->
            IF of(sid) # <<>> THEN 0 ELSE days_since_last_studied[sid]]]

\* the day's sessions put in front of the schedule so far
extend_schedule_at_front(schedule, daily_sessions) == daily_sessions \o schedule

\* schedule.extend(daily_sessions)
extend_schedule(schedule, daily_sessions) == schedule \o daily_sessions

\* the while loop of generate_schedule, from day d to the day of end_date
RECURSIVE schedule_days(_, _, _, _, _, _, _)
schedule_days(db, total_subject_allocation, allocation_keys, daily_allocation, g, d, end_day) ==
    IF d > end_day THEN g
    ELSE
      LET days_since == [sid \in DOMAIN g.days_since_last_studied |->
                            g.days_since_last_studied[sid] + 1]
          today_allocation == calculate_today_allocation(
              total_subject_allocation, allocation_keys, g.hours_allocated,
              days_since, daily_allocation, d)
          day == build_daily_schedule(db, d, today_allocation, g.schedule,
                                      g.task_allocated_minutes)
          tracked == update_tracking(day.day_sessions, g.hours_allocated, days_since)
      IN schedule_days(db, total_subject_allocation, allocation_keys,
                       daily_allocation,
                       [schedule |-> extend_schedule(g.schedule, day.day_sessions),
                        hours_allocated |-> tracked.hours_allocated,
                        days_since_last_studied |-> tracked.days_since_last_studied,
                        task_allocated_minutes |-> day.task_allocated_minutes],
                       d + 1, end_day)

\* the tracking state of generate_schedule before its first day
initial_tracking(total_subject_allocation) ==
    [schedule |-> <<>>,
     hours_allocated |-> [sid \in DOMAIN total_subject_allocation |-> 0],
     days_since_last_studied |-> [sid \in DOMAIN total_subject_allocation |-> 0],
     task_allocated_minutes |-> [t \in task_ids |-> 0]]

\* self.warnings after the run: __init__ sets it to [] and only
\* _schedule_subject_block appends to it, which generate_schedule and
\* build_daily_schedule never call
scheduler_warnings == <<>>

\* what generate_schedule hands on: the schedule, the task ledger and the
\* scheduler's warnings
schedule_result(g) ==
    [schedule |-> g.schedule,
     task_allocated_minutes |-> g.task_allocated_minutes,
     warnings |-> scheduler_warnings]

\* generate_schedule from the total allocation on
schedule_allocation(db, start_date, end_date, total_subject_allocation) ==
    schedule_result(
        schedule_days(db, total_subject_allocation,
            keys_in_subject_order(total_subject_allocation),
            calculate_daily_allocation(total_subject_allocation,
                DateOf(end_date) - DateOf(start_date) + 1),
            initial_tracking(total_subject_allocation),
            DateOf(start_date), DateOf(end_date)))

\* generate_schedule: the schedule and the task ledger it leaves behind
generate_schedule(db, start_date, end_date, fp) ==
    schedule_allocation(db, start_date, end_date,
                        calculate_subject_allocation(end_date, fp))

\* check_urgent_task_coverage that looks only at the tasks due today or earlier
urgent_coverage_due_today ==
    LET today == DateOf(now)
        urgent(sid) == SelectSeq(incomplete_tasks(sid), LAMBDA t :
                          t.deadline # NoDate /\ DateOf(t.deadline) - today <= 0)
        minutes(sid) == SumSeq([i \in DOMAIN urgent(sid) |->
                          IF urgent(sid)[i].estimated_time # 0
                          THEN urgent(sid)[i].estimated_time ELSE 60])
        total_urgent_minutes == SumSeq([i \in DOMAIN subject_ids |->
                                          minutes(subject_ids[i])])
    IN total_urgent_minutes * 7 > user.study_hours_per_week * 2 * 60

\* check_urgent_task_coverage: whether the insufficient_hours warning is raised
check_urgent_task_coverage ==
    LET today == DateOf(now)
        urgent(sid) == SelectSeq(incomplete_tasks(sid), LAMBDA t :
                          t.deadline # NoDate /\ DateOf(t.deadline) - today <= 1)
        minutes(sid) == SumSeq([i \in DOMAIN urgent(sid) |->
                          IF urgent(sid)[i].estimated_time # 0
                          THEN urgent(sid)[i].estimated_time ELSE 60])
        total_urgent_minutes == SumSeq([i \in DOMAIN subject_ids |->
                                          minutes(subject_ids[i])])
    IN \* total_urgent_minutes / 60 > (study_hours_per_week / 7) * 2
       total_urgent_minutes * 7 > user.study_hours_per_week * 2 * 60

(***************************************************************************)
(* save_schedule_to_db and _suggest_task_for_session.                      *)
(***************************************************************************)
\* the score of one candidate task of _suggest_task_for_session
suggestion_score(task, remaining_minutes, task_allocated, session_duration_minutes, today) ==
    LET days_to_deadline == DateOf(task.deadline) - today
        deadline_points ==
            IF task.deadline = NoDate THEN 0
            ELSE IF days_to_deadline = 0 THEN 50
            ELSE IF days_to_deadline = 1 THEN 45
            ELSE IF days_to_deadline <= 3 THEN 35
            ELSE IF days_to_deadline <= 7 THEN 25
            ELSE IF days_to_deadline <= 14 THEN 15
            ELSE 5
        \* time_ratio = remaining_minutes / session_duration_minutes
        fit_points ==
            IF /\ session_duration_minutes <= 2 * remaining_minutes
               /\ 2 * remaining_minutes <= 3 * session_duration_minutes THEN 20
            ELSE IF /\ 3 * session_duration_minutes <= 10 * remaining_minutes
                    /\ remaining_minutes <= 2 * session_duration_minutes THEN 10
            ELSE IF remaining_minutes > 2 * session_duration_minutes THEN 5
            ELSE 0
        recent_points ==
            IF task.created_at # NoDate /\ today - DateOf(task.created_at) <= 2
            THEN 5 ELSE 0
    IN deadline_points + task.priority * 3 + fit_points + recent_points
         + (IF task_allocated = 0 THEN 2 ELSE 0)

\* a deadline test that lets every task through
never_past_due(task, today) == FALSE

\* the deadline test of _suggest_task_for_session: the task was due before the
\* session's date
is_past_due(task, today) ==
    task.deadline # NoDate /\ DateOf(task.deadline) < today

\* the for loop of _suggest_task_for_session: best = [task, score, remaining]
RECURSIVE best_task_of(_, _, _, _, _)
best_task_of(ts, best, task_allocated_minutes, session_duration_minutes, today) ==
    IF ts = <<>> THEN best
    ELSE
      LET task == Head(ts)
          task_estimated == estimate_or(task, session_duration_minutes)
          task_allocated == task_allocated_minutes[task.id]
          remaining_minutes == task_estimated - task_allocated
          score == suggestion_score(task, remaining_minutes, task_allocated,
                                    session_duration_minutes, today)
          past_due == is_past_due(task, today)
      IN best_task_of(Tail(ts),
             IF ~past_due /\ task_allocated < task_estimated /\ score > best.score
             THEN [task_id |-> task.id, score |-> score,
                   remaining |-> remaining_minutes]
             ELSE best,
             task_allocated_minutes, session_duration_minutes, today)

\* _suggest_task_for_session: the suggested task id (NoTask for None) and the
\* updated task ledger
suggest_task_for_session(subject_id, session_duration_minutes, session_start, task_allocated_minutes) ==
    LET best == best_task_of(incomplete_tasks(subject_id),
                    [task_id |-> NoTask, score |-> -1, remaining |-> 0],
                    task_allocated_minutes, session_duration_minutes,
                    DateOf(session_start))
    IN IF best.task_id = NoTask
       THEN [task_id |-> NoTask, task_allocated_minutes |-> task_allocated_minutes]
       ELSE [task_id |-> best.task_id,
             task_allocated_minutes |->
                 [task_allocated_minutes EXCEPT ![best.task_id] =
                     @ + Min(session_duration_minutes, best.remaining)]]

\* the task link save_schedule_to_db keeps for a session that carries one
validated_task_id(session) ==
    IF \E i \in DOMAIN tasks :
          /\ tasks[i].id = session.task_id
          /\ ~tasks[i].completed
          /\ ~(tasks[i].deadline # NoDate
               /\ DateOf(tasks[i].deadline) < DateOf(session.start_time))
    THEN session.task_id
    ELSE NoTask

\* save_schedule_to_db: the StudySession rows added, first primary key first_id
RECURSIVE save_schedule_to_db(_, _, _)
save_schedule_to_db(schedule, task_allocated_minutes, first_id) ==
    IF schedule = <<>> THEN {}
    ELSE
      LET session == Head(schedule)
          suggestion == suggest_task_for_session(session.subject_id,
                            session.end_time - session.start_time,
                            session.start_time, task_allocated_minutes)
          linked == session.task_id # NoTask
          db_session == [id |-> first_id,
                         user_id |-> user.id,
                         subject_id |-> session.subject_id,
                         start_time |-> session.start_time,
                         end_time |-> session.end_time,
                         status |-> "planned",
                         task_id |-> IF linked THEN validated_task_id(session)
                                     ELSE suggestion.task_id,
                         completed |-> FALSE,
                         locked |-> FALSE]
      IN {db_session} \cup
           save_schedule_to_db(Tail(schedule),
               IF linked THEN task_allocated_minutes
               ELSE suggestion.task_allocated_minutes,
               first_id + 1)

(***************************************************************************)
(* app/routes/scheduler.py: the rows the regeneration clears.              *)
(***************************************************************************)
\* the user's local midnight of the day of start_date, in UTC
local_midnight_utc(start_date) ==
    localize_to_utc(DateOf(utc_to_local(start_date, user.timezone)) * MinutesPerDay,
                    user.timezone)

\* the delete query without its locked and status filters
cleared_sessions_any_state(db, delete_from) ==
    {x \in db : /\ x.user_id = user.id
                /\ x.start_time >= delete_from}

\* the rows matched by the delete query of generate()
cleared_sessions(db, delete_from) ==
    {x \in db : /\ x.user_id = user.id
                /\ x.start_time >= delete_from
                /\ x.locked = FALSE
                /\ x.status \in {"planned", "missed"}}

(***************************************************************************)
(* models/missed_sessions.py                                               *)
(***************************************************************************)
\* the selection without its filter on the locked column
missed_sessions_ignoring_lock(db, user_id, grace_minutes) ==
    {x \in db : /\ x.user_id = user_id
                /\ x.status = "planned"
                /\ x.end_time <= now - grace_minutes}

\* the rows mark_missed_sessions(user_id, grace_minutes) selects
\* a selection that reads neither the status nor the lock
missed_sessions_any_status(db, user_id, grace_minutes) ==
    {x \in db : x.user_id = user_id /\ x.end_time <= now - grace_minutes}

missed_sessions(db, user_id, grace_minutes) ==
    {x \in db : /\ x.user_id = user_id
                /\ x.status = "planned"
                /\ x.end_time <= now - grace_minutes
                /\ x.locked = FALSE}

\* mark_missed_sessions: the database after the commit and the returned count
mark_missed_sessions(db, user_id, grace_minutes) ==
    LET selected == missed_sessions(db, user_id, grace_minutes)
    IN [sessions |-> (db \ selected) \cup
                     {[x EXCEPT !.status = "missed"] : x \in selected},
        count |-> Cardinality(selected)]

(***************************************************************************)
(* app/routes/jobs.py, app/routes/scheduler.py and app/routes/main.py: the *)
(* handlers that change one session of the current user.                   *)
(***************************************************************************)
SessionStatus == {"planned", "completed", "missed", "canceled"}

\* the grace period mark_missed passes on: the preference's when it is set
\* and not zero, else 30
mark_missed_grace_minutes ==
    IF pref # NoPref /\ pref.grace_minutes # 0 THEN pref.grace_minutes ELSE 30

\* the session with this id, as a set of at most one row
session_by_id(db, session_id) == {x \in db : x.id = session_id}

\* session_details (POST): an unknown status name falls back to planned and
\* leaves the completed flag as it was
session_details(db, session_id, status_str, task_id) ==
    {IF x.id # session_id THEN x
     ELSE IF status_str \in SessionStatus
          THEN [x EXCEPT !.status = status_str,
                         !.completed = (status_str = "completed"),
                         !.task_id = task_id]
          ELSE [x EXCEPT !.status = "planned", !.task_id = task_id] : x \in db}

delete_session(db, session_id) == {x \in db : x.id # session_id}

toggle_lock(db, session_id) ==
    {IF x.id = session_id THEN [x EXCEPT !.locked = ~x.locked] ELSE x : x \in db}

mark_completed(db, session_id) ==
    {IF x.id = session_id
     THEN [x EXCEPT !.status = "completed", !.completed = TRUE]
     ELSE x : x \in db}

(***************************************************************************)
(* models/missed_sessions.py: the makeup queue.  A MakeupQueue row is      *)
(* [id, user_id, subject_id, minutes, expires_at], expires_at a day        *)
(* number; the server's date.today() is the day of now.                    *)
(***************************************************************************)
date_today == DateOf(now)

\* StudySession.duration_minutes
duration_minutes(x) == x.end_time - x.start_time

\* the entries a cleanup that also drops those expiring today would select
expired_entries_through_today(queue) ==
    {e \in queue : e.expires_at <= date_today}

\* MakeupQueue.query.filter(MakeupQueue.expires_at < date.today()).all()
expired_entries(queue) == {e \in queue : e.expires_at < date_today}

\* cleanup_expired_makeup_queue: the table it leaves and the count it returns
cleanup_expired_makeup_queue(queue) ==
    [makeup_queue |-> queue \ expired_entries(queue),
     count |-> Cardinality(expired_entries(queue))]

\* the subjects of the user's missed sessions and the minutes missed in each
subject_minutes(db, user_id) ==
    LET missed == {x \in db : x.user_id = user_id /\ x.status = "missed"}
        minutes == [x \in missed |-> duration_minutes(x)]
    IN [sid \in {x.subject_id : x \in missed} |->
          SumFn(minutes, {x \in missed : x.subject_id = sid})]

\* the primary key of a MakeupQueue row added to the table
next_makeup_id(queue) ==
    IF queue = {} THEN 1
    ELSE 1 + (CHOOSE i \in {e.id : e \in queue} : \A e \in queue : e.id <= i)

\* the unexpired entries of the user and subject; first() takes one of them
existing_entries(queue, user_id, subject_id) ==
    {e \in queue : /\ e.user_id = user_id
                   /\ e.subject_id = subject_id
                   /\ e.expires_at >= date_today}

RECURSIVE queue_subjects(_, _, _, _, _)
\* the for loop of queue_missed_sessions_for_makeup over subject_minutes (the
\* order of the subjects decides nothing but the primary keys)
queue_subjects(queue, user_id, by_subject, todo, days_to_expire) ==
    IF todo = {} THEN queue
    ELSE
      LET subject_id == CHOOSE sid \in todo : \A t \in todo : sid <= t
          expires_at == date_today + days_to_expire
          found == existing_entries(queue, user_id, subject_id)
          existing == CHOOSE e \in found : \A f \in found : e.id <= f.id
          updated ==
              IF found # {}
              THEN (queue \ {existing}) \cup
                   {[existing EXCEPT
                       !.minutes = @ + by_subject[subject_id],
                       !.expires_at = Max(@, expires_at)]}
              ELSE queue \cup {[id |-> next_makeup_id(queue),
                                user_id |-> user_id,
                                subject_id |-> subject_id,
                                minutes |-> by_subject[subject_id],
                                expires_at |-> expires_at]}
      IN queue_subjects(updated, user_id, by_subject, todo \ {subject_id},
                        days_to_expire)

\* queue_missed_sessions_for_makeup: the MakeupQueue table it leaves
queue_missed_sessions_for_makeup(db, queue, user_id, days_to_expire) ==
    queue_subjects(queue, user_id, subject_minutes(db, user_id),
                   DOMAIN subject_minutes(db, user_id), days_to_expire)

(***************************************************************************)
(* SpecAlloc: allocate_hours applied to every input within the bounds.     *)
(***************************************************************************)
NoAllocation == [none |-> TRUE]

CapValues == {30 * k : k \in 0..MaxCapHalfHours}

CapMaps(S) ==
    UNION {[T -> CapValues] : T \in SUBSET S}

InitAlloc ==
    /\ pc = "input"
    /\ \E n \in 1..MaxSubjects :
         /\ weight_ids = [i \in 1..n |-> i]
         /\ weights \in [1..n -> 0..MaxWeight]
         /\ caps \in CapMaps(1..n)
    /\ total_hours \in 0..MaxTotalHours
    /\ allocation = NoAllocation
    /\ now = 0
    /\ user = [id |-> 1, timezone |-> 0, study_hours_per_week |-> 10,
               preferred_study_times |-> json_dumps(DefaultPreferredTimes)]
    /\ pref = NoPref
    /\ subjects = <<>>
    /\ tasks = <<>>
    /\ constraints = {}
    /\ class_blocks = {}
    /\ makeup_queue = {}
    /\ sessions = {}
    /\ next_id = 1
    /\ last = NoOp

Allocate ==
    /\ pc = "input"
    /\ \E fp \in FloatOutcomes(weight_ids, weights, total_hours, caps) :
         allocation' = allocate_hours(weight_ids, weights, total_hours, caps, fp)
    /\ pc' = "allocated"
    /\ UNCHANGED <<weight_ids, weights, total_hours, caps>>
    /\ UNCHANGED <<now, worldVars, sessions, next_id, last>>

NextAlloc == Allocate

SpecAlloc == InitAlloc /\ [][NextAlloc]_vars

(***************************************************************************)
(* SpecTies: allocate_hours without caps on three subjects whose weights   *)
(* reach far enough for different weights to have the same fractional      *)
(* remainder (weights 1, 4, 1 and 2 hours: the shares are 1/3, 4/3, 1/3).  *)
(***************************************************************************)
MaxTieWeight == 4

InitTies ==
    /\ pc = "input"
    /\ weight_ids = <<1, 2, 3>>
    /\ weights \in [1..3 -> 1..MaxTieWeight]
    /\ caps = <<>>
    /\ total_hours \in 1..MaxTotalHours
    /\ allocation = NoAllocation
    /\ now = 0
    /\ user = [id |-> 1, timezone |-> 0, study_hours_per_week |-> 10,
               preferred_study_times |-> json_dumps(DefaultPreferredTimes)]
    /\ pref = NoPref
    /\ subjects = <<>>
    /\ tasks = <<>>
    /\ constraints = {}
    /\ class_blocks = {}
    /\ makeup_queue = {}
    /\ sessions = {}
    /\ next_id = 1
    /\ last = NoOp

SpecTies == InitTies /\ [][NextAlloc]_vars

(***************************************************************************)
(* Claims about allocate_hours, checked under SpecAlloc.                   *)
(***************************************************************************)
Allocated == pc = "allocated"

AllocationSum == SumFn(allocation, DOMAIN allocation)

TotalWeight == SumFn(weights, Range(weight_ids))

C6_AllocationWithinCap ==
    Allocated =>
        \A s \in DOMAIN caps \cap DOMAIN allocation :
            allocation[s] * 60 <= caps[s]

\* C10: every value returned by allocate_hours is a non-negative integer, for
\* all non-negative weights, totalHours and caps.
C10_AllocationNonNegative ==
    Allocated => \A s \in DOMAIN allocation : allocation[s] \in Nat

\* C10 witness: an allocation in which one subject holds a fractional cap
\* floored to whole hours and another holds hours from the remaining budget.
C10_Witness ==
    /\ Allocated
    /\ \E s \in DOMAIN caps \cap DOMAIN allocation :
         /\ caps[s] % 60 # 0
         /\ allocation[s] = caps[s] \div 60
         /\ \E t \in DOMAIN allocation \ DOMAIN caps : allocation[t] > 0

\* C11: without caps and with positive total weight, each subject's allocation
\* is the floor or the ceiling of its exact share weight / totalWeight *
\* totalHours (so it equals the share when the share is an integer), and
\* every subject has an allocation when totalHours is positive.
C11_FloorOrCeilingOfShare ==
    (Allocated /\ DOMAIN caps = {} /\ TotalWeight > 0) =>
        /\ total_hours > 0 => DOMAIN allocation = Range(weight_ids)
        /\ \A s \in DOMAIN allocation :
              /\ (weights[s] * total_hours) \div TotalWeight <= allocation[s]
              /\ allocation[s] <= CeilDiv(weights[s] * total_hours, TotalWeight)

\* C11 witness: an uncapped allocation in which one subject's share is an
\* integer, and of two subjects with the same fractional share one holds the
\* ceiling and the other the floor.
C11_Witness ==
    /\ Allocated
    /\ DOMAIN caps = {}
    /\ TotalWeight > 0
    /\ \E s, t, u \in DOMAIN allocation :
          /\ (weights[s] * total_hours) % TotalWeight = 0
          /\ allocation[s] * TotalWeight = weights[s] * total_hours
          /\ allocation[s] > 0
          /\ (weights[t] * total_hours) % TotalWeight # 0
          /\ allocation[t] = CeilDiv(weights[t] * total_hours, TotalWeight)
          /\ (weights[u] * total_hours) % TotalWeight # 0
          /\ allocation[u] = (weights[u] * total_hours) \div TotalWeight

\* the exact fractional remainder of subject s, in units of 1 / TotalWeight
ShareRemainder(s) == (weights[s] * total_hours) % TotalWeight

\* subject s holds a leftover unit: one hour above the floor of its share
HoldsLeftover(s) ==
    allocation[s] = (weights[s] * total_hours) \div TotalWeight + 1

\* C12: without caps, if weight[i] >= weight[j] then i is allocated at least
\* as many hours as j; and the leftover units go one each to the largest
\* fractional remainders, a tie in remainder being won by the larger weight.
C12_MonotoneAndTieByWeight ==
    (Allocated /\ DOMAIN caps = {}) =>
        /\ \A i, j \in DOMAIN allocation :
              weights[i] >= weights[j] => allocation[i] >= allocation[j]
        /\ TotalWeight > 0 =>
              \A i, j \in DOMAIN allocation :
                 (/\ HoldsLeftover(j)
                  /\ \/ ShareRemainder(i) > ShareRemainder(j)
                     \/ /\ ShareRemainder(i) = ShareRemainder(j)
                        /\ weights[i] > weights[j])
                     => HoldsLeftover(i)

\* the subjects whose cap is below their exact proportional share
CappedBelowShare ==
    {s \in DOMAIN caps \cap Range(weight_ids) :
        caps[s] * TotalWeight < weights[s] * total_hours * 60}

\* int(totalHours - the hours consumed by the caps below the share)
BudgetAfterCaps == TruncDiv(total_hours * 60 - SumFn(caps, CappedBelowShare), 60)

\* C13: with caps, the sum of the allocation never exceeds totalHours, each
\* subject whose cap is below its proportional share receives its cap floored
\* to an integer, and the other subjects together receive all of the
\* remaining budget, int(totalHours - the hours consumed by those caps).
C13_CapsConsumeBudget ==
    (Allocated /\ DOMAIN caps # {} /\ TotalWeight > 0 /\ total_hours > 0) =>
        /\ AllocationSum <= total_hours
        /\ \A s \in CappedBelowShare : allocation[s] = caps[s] \div 60
        /\ Range(weight_ids) # CappedBelowShare =>
              SumFn(allocation, Range(weight_ids) \ CappedBelowShare)
                  = BudgetAfterCaps

MaxDays == 1

\* now: Monday 10:00 and Sunday 10:00
GenNows == {10 * 60, 6 * MinutesPerDay + 10 * 60}

NoAllocInput ==
    /\ weight_ids = <<>>
    /\ weights = <<>>
    /\ total_hours = 0
    /\ caps = <<>>
    /\ allocation = NoAllocation

SamplePreferredTimes ==
    [morning |-> TRUE, afternoon |-> TRUE, evening |-> FALSE, night |-> FALSE]

SamplePref ==
    [preferred_session_length |-> 60, break_duration |-> 10,
     max_consecutive_hours |-> 2, weekend_study |-> TRUE, grace_minutes |-> 30]

\* a preference row that keeps the weekend free
WeekdayPref ==
    [preferred_session_length |-> 60, break_duration |-> 15,
     max_consecutive_hours |-> 2, weekend_study |-> FALSE, grace_minutes |-> 30]

\* preferred_study_times and StudyPreference of a user: the defaults, the
\* sample user of tests/conftest.py, and an evening user with free weekends
Profiles ==
    {[times |-> DefaultPreferredTimes, pref |-> NoPref],
     [times |-> SamplePreferredTimes, pref |-> SamplePref],
     [times |-> DefaultPreferredTimes, pref |-> WeekdayPref]}

\* User.study_hours_per_week
StudyHours == {0, 4, 14}

UserOf(tz, hours, times) ==
    [id |-> 1, timezone |-> tz, study_hours_per_week |-> hours,
     preferred_study_times |-> json_dumps(times)]

Capstone == [id |-> 1, priority |-> 2, difficulty |-> 3, exam_date |-> NoDate]

History == [id |-> 2, priority |-> 5, difficulty |-> 3, exam_date |-> NoDate]

UrgentProject(t, minutes) ==
    [id |-> 1, subject_id |-> 1, user_id |-> 1, deadline |-> t,
     estimated_time |-> minutes, priority |-> 5, completed |-> FALSE,
     created_at |-> t]

Reading(t, due_in_days) ==
    [id |-> 2, subject_id |-> 2, user_id |-> 1,
     deadline |-> t + due_in_days * MinutesPerDay,
     estimated_time |-> 60, priority |-> 2, completed |-> FALSE,
     created_at |-> t]

TaskEstimates == {0, 50, 60, 120, 240, 300}

TaskLists(t) ==
    {<<>>}
      \cup {<<UrgentProject(t, m)>> : m \in TaskEstimates}
      \cup {<<UrgentProject(t, m), Reading(t, k)>> : m \in TaskEstimates, k \in {1, 3}}

\* Monday busy times of the user: a hard one and a soft one
BusyTimes ==
    {[user_id |-> 1, day_of_week |-> 0, start_time |-> 18 * 60,
      end_time |-> 19 * 60, is_hard |-> TRUE],
     [user_id |-> 1, day_of_week |-> 0, start_time |-> 5 * 60,
      end_time |-> 6 * 60, is_hard |-> FALSE]}

\* a Monday class that starts and ends off the slot grid
Classes ==
    {[user_id |-> 1, day_of_week |-> 0, start_time |-> 12 * 60 + 20,
      end_time |-> 12 * 60 + 50]}

\* a locked session of the user on the day of t, 17:00 to 18:00
LockedSeed(t) ==
    [id |-> 1, user_id |-> 1, subject_id |-> 2,
     start_time |-> DateOf(t) * MinutesPerDay + 17 * 60,
     end_time |-> DateOf(t) * MinutesPerDay + 18 * 60,
     status |-> "planned", task_id |-> NoTask, completed |-> FALSE,
     locked |-> TRUE]

GenInit ==
    /\ pc = "ready"
    /\ NoAllocInput
    /\ now \in GenNows
    /\ \E p \in Profiles, hours \in StudyHours :
          /\ user = UserOf(0, hours, p.times)
          /\ pref = p.pref
    /\ subjects = <<Capstone, History>>
    /\ tasks \in TaskLists(now)
    /\ constraints \in SUBSET BusyTimes
    /\ class_blocks \in SUBSET Classes
    /\ makeup_queue = {}
    /\ sessions \in SUBSET {LockedSeed(now)}
    /\ next_id = 2
    /\ last = NoOp

\* scheduler = StudyScheduler(user, subjects, start_date=now,
\*                            end_date=now + days); scheduler.generate_schedule()
GenerateScheduleOver(day_counts) ==
    /\ pc = "ready"
    /\ \E days \in day_counts, fp \in ScheduleFloatOutcomes :
          IF \E d \in DateOf(now)..(DateOf(now) + days) : available_hours_raise(d)
          THEN last' = [op |-> "generate_schedule raises",
                        start_date |-> now,
                        end_date |-> now + days * MinutesPerDay]
          ELSE \E g \in {generate_schedule(sessions, now,
                                           now + days * MinutesPerDay, fp)} :
                 last' = [op |-> "generate_schedule",
                          start_date |-> now,
                          end_date |-> now + days * MinutesPerDay,
                          total_subject_allocation |->
                              calculate_subject_allocation(
                                  now + days * MinutesPerDay, fp),
                          schedule |-> g.schedule,
                          warnings |-> g.warnings,
                          task_allocated_minutes |-> g.task_allocated_minutes]
    /\ pc' = "generated"
    /\ UNCHANGED <<allocVars, now, worldVars, sessions, next_id>>

GenerateSchedule == GenerateScheduleOver(0..MaxDays)

\* scheduler.check_urgent_task_coverage() on the same scheduler
CheckUrgentTaskCoverage ==
    /\ pc = "ready"
    /\ last' = [op |-> "check_urgent_task_coverage",
                warning |-> check_urgent_task_coverage]
    /\ UNCHANGED <<pc, allocVars, now, worldVars, sessions, next_id>>

NextGen == GenerateSchedule \/ CheckUrgentTaskCoverage

SpecGen == GenInit /\ [][NextGen]_vars

Generated == pc = "generated" /\ last.op = "generate_schedule"

\* some instant of [start_time, end_time) is blocked for the user
OverBlockedTime(x) ==
    \E t \in x.start_time..(x.end_time - 1) :
        is_time_blocked_by_constraints(sessions, t)

\* C2: no session that generate_schedule produces, task chunk or regular
\* block, covers an instant inside a hard UserConstraint or a ClassBlock of
\* its weekday or inside a locked StudySession of the user.
C2_NoSessionOverBlockedTime ==
    Generated =>
        \A i \in DOMAIN last.schedule : ~OverBlockedTime(last.schedule[i])

\* sessions i and j of the schedule start on the same day
SameDay(i, j) ==
    DateOf(last.schedule[i].start_time) = DateOf(last.schedule[j].start_time)

\* on every day every task session starts before every session without a task
TaskSessionsBeforeRegular ==
    \A i, j \in DOMAIN last.schedule :
        (/\ last.schedule[i].task_id # NoTask
         /\ last.schedule[j].task_id = NoTask
         /\ SameDay(i, j))
            => last.schedule[i].start_time < last.schedule[j].start_time

\* the subject has an incomplete task whose deadline falls on a day of D
HasTaskDue(sid, D) ==
    \E i \in DOMAIN tasks :
        /\ tasks[i].subject_id = sid
        /\ ~tasks[i].completed
        /\ tasks[i].deadline # NoDate
        /\ DateOf(tasks[i].deadline) \in D

\* subject a has a task due on the start day, and a subject of higher priority
\* exists, and no other subject has a task due on the start day or the next
DueTodayAgainstHigherPriority(a) ==
    LET today == DateOf(last.start_date)
    IN /\ HasTaskDue(a, {today})
       /\ \E b \in Range(subject_ids) :
             b # a /\ subject_map[b].priority > subject_map[a].priority
       /\ \A b \in Range(subject_ids) \ {a} : ~HasTaskDue(b, {today, today + 1})

\* C8 as stated: on every scheduled day the urgent-task sessions start before
\* the regular sessions, and when subject A has a task due today and subject B
\* has higher priority but no task due today or tomorrow, the first session
\* of the schedule belongs to A.
C8_UrgentFirstAlways ==
    Generated =>
        /\ TaskSessionsBeforeRegular
        /\ \A a \in Range(subject_ids) :
              (DueTodayAgainstHigherPriority(a) /\ last.schedule # <<>>)
                  => last.schedule[1].subject_id = a

\* C8 (amended): on every scheduled day the urgent-task sessions start before
\* the regular sessions, and when subject A has a task due today and subject B
\* has higher priority but no task due today or tomorrow, the first session
\* of the schedule belongs to A provided that session is on the start day.
C8_UrgentFirstOnStartDay ==
    Generated =>
        /\ TaskSessionsBeforeRegular
        /\ \A a \in Range(subject_ids) :
              (/\ DueTodayAgainstHigherPriority(a)
               /\ last.schedule # <<>>
               /\ DateOf(last.schedule[1].start_time) = DateOf(last.start_date))
                  => last.schedule[1].subject_id = a

\* a day with an urgent-task session followed by a regular session of the
\* higher-priority subject
C8_Witness ==
    /\ Generated
    /\ DueTodayAgainstHigherPriority(1)
    /\ Len(last.schedule) >= 2
    /\ last.schedule[1].task_id # NoTask
    /\ last.schedule[1].subject_id = 1
    /\ \E j \in DOMAIN last.schedule :
          /\ last.schedule[j].task_id = NoTask
          /\ last.schedule[j].subject_id = 2
          /\ SameDay(1, j)

\* C19: the list returned by generate_schedule is in chronological order: the
\* start times are non-decreasing along the list, within each day and across
\* the days of the range.
C19_ScheduleChronological ==
    Generated =>
        \A i, j \in DOMAIN last.schedule :
            i < j => last.schedule[i].start_time <= last.schedule[j].start_time

\* C20: with StudyPreference.weekend_study false, get_available_hours has no
\* candidate on a Saturday or Sunday and no session of the generated schedule
\* starts on a Saturday or Sunday
C20_WeekendsFree ==
    (pref # NoPref /\ ~pref.weekend_study) =>
        /\ \A d \in DateOf(now)..(DateOf(now) + MaxDays) :
              Weekday(d) >= 5 => get_available_hours(d) = <<>>
        /\ Generated =>
              \A i \in DOMAIN last.schedule :
                  Weekday(DateOf(last.schedule[i].start_time)) < 5

\* C20 witness: a schedule generated on a Sunday for Sunday and Monday by a
\* user who keeps weekends free; its sessions are all on the Monday
C20_Witness ==
    /\ pref # NoPref
    /\ ~pref.weekend_study
    /\ Generated
    /\ Weekday(DateOf(last.start_date)) = 6
    /\ last.schedule # <<>>
    /\ \A i \in DOMAIN last.schedule :
          Weekday(DateOf(last.schedule[i].start_time)) = 0

\* C19 witness: a schedule over two days whose first day holds a task
\* session followed by regular sessions
C19_Witness ==
    /\ Generated
    /\ Len(last.schedule) >= 4
    /\ last.schedule[1].task_id # NoTask
    /\ last.schedule[2].task_id = NoTask
    /\ SameDay(1, 3)
    /\ ~SameDay(1, Len(last.schedule))
    /\ \A i \in 1..(Len(last.schedule) - 1) :
          last.schedule[i].start_time < last.schedule[i + 1].start_time

\* the estimated minutes (60 without an estimate) of the incomplete tasks
\* whose deadline is tomorrow or earlier
RECURSIVE DueSoonMinutes(_)
DueSoonMinutes(ts) ==
    IF ts = <<>> THEN 0
    ELSE (IF ~Head(ts).completed /\ Head(ts).deadline # NoDate
             /\ DateOf(Head(ts).deadline) <= DateOf(now) + 1
          THEN (IF Head(ts).estimated_time = 0 THEN 60
                ELSE Head(ts).estimated_time)
          ELSE 0) + DueSoonMinutes(Tail(ts))

WeeklyAllocationSum ==
    SumFn(last.total_subject_allocation, DOMAIN last.total_subject_allocation)

RECURSIVE SessionMinutesOfTask(_, _)
SessionMinutesOfTask(schedule, task_id) ==
    IF schedule = <<>> THEN 0
    ELSE (IF Head(schedule).task_id = task_id
          THEN Head(schedule).end_time - Head(schedule).start_time ELSE 0)
           + SessionMinutesOfTask(Tail(schedule), task_id)

\* C25: over a whole run the sessions generated with a task's id last at
\* most the task's estimated time (the preferred session length without an
\* estimate) in total, and exactly the task's task_allocated_minutes entry
C25_TaskMinutesWithinEstimate ==
    Generated =>
        \A i \in DOMAIN tasks :
            /\ SessionMinutesOfTask(last.schedule, tasks[i].id)
                  <= (IF tasks[i].estimated_time > 0
                      THEN tasks[i].estimated_time ELSE get_session_length)
            /\ SessionMinutesOfTask(last.schedule, tasks[i].id)
                  = last.task_allocated_minutes[tasks[i].id]

\* C25 witness: a run over two days; a 240 minute task due today is met by
\* two sessions and a task due tomorrow by one session of the first day;
\* the second day, when that task is due, adds nothing for it
C25_Witness ==
    /\ Generated
    /\ DateOf(last.end_date) > DateOf(last.start_date)
    /\ Len(tasks) = 2
    /\ tasks[1].estimated_time = 240
    /\ SessionMinutesOfTask(last.schedule, 1) = 240
    /\ last.task_allocated_minutes[1] = 240
    /\ DateOf(tasks[2].deadline) = DateOf(now) + 1
    /\ SessionMinutesOfTask(last.schedule, 2) = 60
    /\ \A i \in DOMAIN last.schedule :
          last.schedule[i].task_id # NoTask
              => DateOf(last.schedule[i].start_time) = DateOf(now)

\* the minutes of task i that the run left without a session
UnscheduledMinutes(i) ==
    (IF tasks[i].estimated_time > 0 THEN tasks[i].estimated_time
     ELSE get_session_length)
      - SessionMinutesOfTask(last.schedule, tasks[i].id)

\* task i is an urgent task of the start day: incomplete, of the user, due
\* on that day or the next
UrgentOnStartDay(i) ==
    /\ ~tasks[i].completed
    /\ tasks[i].user_id = user.id
    /\ tasks[i].deadline # NoDate
    /\ DateOf(tasks[i].deadline) \in {DateOf(now), DateOf(now) + 1}

\* the unblocked candidates of the start day at which the given minutes fit
\* clear of every generated session and its break
FreeCandidates(minutes) ==
    {c \in Range(filter_blocked_hours(sessions, DateOf(now),
                                      get_available_hours(DateOf(now)))) :
        \A k \in DOMAIN last.schedule :
            \/ c + minutes <= last.schedule[k].start_time
            \/ c >= last.schedule[k].end_time + get_break_duration}

\* C26: on a day with enough free candidate slots every urgent task of the
\* day gets sessions for its whole remaining estimate: after a run over one
\* day no urgent task has minutes left while a free candidate could take them
C26_UrgentTasksFullyScheduled ==
    (Generated /\ DateOf(last.end_date) = DateOf(last.start_date)) =>
        \A i \in DOMAIN tasks :
            (UrgentOnStartDay(i) /\ UnscheduledMinutes(i) > 0)
                => FreeCandidates(UnscheduledMinutes(i)) = {}

\* C27: of two sessions generated on the same day the later one starts no
\* earlier than the end of the earlier one plus break_duration
C27_BreakBetweenSessions ==
    Generated =>
        \A i, j \in DOMAIN last.schedule :
            (i # j /\ SameDay(i, j)
               /\ last.schedule[i].start_time <= last.schedule[j].start_time)
                => last.schedule[j].start_time
                      >= last.schedule[i].end_time + get_break_duration

\* the sessions i..j of the schedule are of one subject and each starts no
\* later than the end of the one before plus the break
UnbrokenRun(i, j) ==
    /\ \A k \in i..j : last.schedule[k].subject_id = last.schedule[i].subject_id
    /\ \A k \in i..(j - 1) :
          /\ last.schedule[k].start_time <= last.schedule[k + 1].start_time
          /\ last.schedule[k + 1].start_time
                <= last.schedule[k].end_time + get_break_duration

\* the study minutes of the sessions i..j
RECURSIVE RunMinutes(_, _)
RunMinutes(i, j) ==
    IF i > j THEN 0
    ELSE last.schedule[i].end_time - last.schedule[i].start_time
           + RunMinutes(i + 1, j)

\* C28: in the returned schedule neither a single session nor a run of one
\* subject's sessions separated only by breaks is longer than
\* max_consecutive_hours
C28_ConsecutiveCap ==
    Generated =>
        \A i, j \in DOMAIN last.schedule :
            (i <= j /\ UnbrokenRun(i, j))
                => RunMinutes(i, j) <= 60 * get_max_consecutive_hours

\* the minutes of the generated sessions of a subject
RECURSIVE SessionMinutesOfSubject(_, _)
SessionMinutesOfSubject(schedule, subject_id) ==
    IF schedule = <<>> THEN 0
    ELSE (IF Head(schedule).subject_id = subject_id
          THEN Head(schedule).end_time - Head(schedule).start_time ELSE 0)
           + SessionMinutesOfSubject(Tail(schedule), subject_id)

\* C30: over the whole run the sessions generated for a subject never last
\* longer in total than the subject's weekly allocation
C30_WithinWeeklyAllocation ==
    Generated =>
        \A i \in DOMAIN subjects :
            SessionMinutesOfSubject(last.schedule, subjects[i].id)
                <= 60 * (IF subjects[i].id \in DOMAIN last.total_subject_allocation
                         THEN last.total_subject_allocation[subjects[i].id]
                         ELSE 0)

\* C31: when a run gives a subject less than half of the hours it needs on
\* a day, an insufficient_time warning naming the subject is in the
\* scheduler's warnings; on a run over one day the need of a subject is at
\* least its weekly allocation
C31_InsufficientTimeWarned ==
    (Generated /\ DateOf(last.end_date) = DateOf(last.start_date)) =>
        \A sid \in DOMAIN last.total_subject_allocation :
            2 * SessionMinutesOfSubject(last.schedule, sid)
                  < 60 * last.total_subject_allocation[sid]
                => \E k \in DOMAIN last.warnings :
                      /\ last.warnings[k].type = "insufficient_time"
                      /\ last.warnings[k].subject = sid

\* the allocation generate_schedule hands to build_daily_schedule for the
\* first day of the run
StartDayAllocation ==
    calculate_today_allocation(
        last.total_subject_allocation,
        keys_in_subject_order(last.total_subject_allocation),
        [sid \in DOMAIN last.total_subject_allocation |-> 0],
        [sid \in DOMAIN last.total_subject_allocation |-> 1],
        calculate_daily_allocation(last.total_subject_allocation,
            DateOf(last.end_date) - DateOf(last.start_date) + 1),
        DateOf(last.start_date))

\* C33: regular allocation runs until the day's allocation or the slots are
\* exhausted: after a run over one day every subject of the day's allocation
\* has got the minutes of its day allocation or no candidate is left free for
\* a session of preferred_session_length, and every session without a task
\* lasts preferred_session_length
C33_AllocationOrSlotsExhausted ==
    (Generated /\ DateOf(last.end_date) = DateOf(last.start_date)) =>
        /\ \A sid \in DOMAIN last.total_subject_allocation :
              \/ SessionMinutesOfSubject(last.schedule, sid)
                    >= StartDayAllocation.val[sid]
              \/ FreeCandidates(get_session_length) = {}
        /\ \A k \in DOMAIN last.schedule :
              last.schedule[k].task_id = NoTask
                  => last.schedule[k].end_time - last.schedule[k].start_time
                        = get_session_length

\* the session that starts at start and lasts minutes hits the busy time c:
\* one of the instants the filter looks at lies in c on c's weekday
HitsConstraint(start, minutes, c) ==
    /\ c.user_id = user.id
    /\ c.day_of_week = Weekday(DateOf(start))
    /\ \E t \in SlotSteps(start, minutes) :
          c.start_time <= TimeOf(t) /\ TimeOf(t) < c.end_time

\* C34: the constraint filter rejects a candidate start whose session
\* interval hits a UserConstraint of that weekday, be is_hard true or false:
\* after a run no start the filter kept for the start day, and so no session
\* generated on it, hits a constraint of the user
C34_FilterBlocksEveryConstraint ==
    Generated =>
        /\ \A start \in Range(filter_blocked_hours(sessions, DateOf(now),
                                  get_available_hours(DateOf(now)))) :
              \A c \in constraints :
                  ~HitsConstraint(start, get_session_length, c)
        /\ \A k \in DOMAIN last.schedule :
              \A c \in constraints :
                  ~HitsConstraint(last.schedule[k].start_time,
                                  get_session_length, c)

\* the generated sessions of subject sid that start on day d
SessionsOn(sid, d) ==
    {k \in DOMAIN last.schedule :
        /\ last.schedule[k].subject_id = sid
        /\ DateOf(last.schedule[k].start_time) = d}

\* days_since_last_studied[sid] as generate_schedule holds it when it builds
\* day d: the days since the last day of the run with a session of sid, and
\* the days of the run so far when there is none
RECURSIVE DaysSinceLastStudied(_, _)
DaysSinceLastStudied(sid, d) ==
    IF d = DateOf(last.start_date) THEN 1
    ELSE IF SessionsOn(sid, d - 1) # {} THEN 1
    ELSE DaysSinceLastStudied(sid, d - 1) + 1

\* the minutes of sid's weekly allocation that are left when day d begins
MinutesLeftOn(sid, d) ==
    60 * last.total_subject_allocation[sid]
      - SumSeq([k \in DOMAIN last.schedule |->
                   IF /\ last.schedule[k].subject_id = sid
                      /\ DateOf(last.schedule[k].start_time) < d
                   THEN last.schedule[k].end_time - last.schedule[k].start_time
                   ELSE 0])

\* the sessions of sid on day d that carry no task
RegularSessionsOn(sid, d) ==
    {k \in SessionsOn(sid, d) : last.schedule[k].task_id = NoTask}

\* C35: on each day of a run a subject that has gone 2 or more days without
\* a session and has weekly hours left comes first: its first regular session
\* of the day is placed before every regular session of a subject that was
\* studied more recently
C35_OverdueSubjectFirst ==
    Generated =>
        \A d \in DateOf(last.start_date)..DateOf(last.end_date) :
            \A a, b \in DOMAIN last.total_subject_allocation :
                (/\ DaysSinceLastStudied(a, d) >= 2
                 /\ MinutesLeftOn(a, d) > 0
                 /\ DaysSinceLastStudied(b, d) < 2
                 /\ RegularSessionsOn(a, d) # {}
                 /\ RegularSessionsOn(b, d) # {})
                    => \E i \in RegularSessionsOn(a, d) :
                          \A j \in RegularSessionsOn(b, d) :
                              /\ i < j
                              /\ last.schedule[i].start_time
                                    < last.schedule[j].start_time

(***************************************************************************)
(* SpecRegen: the POST /scheduler/generate route on a database that holds  *)
(* earlier sessions of the user (planned, missed, completed, canceled,     *)
(* locked) and a session of another user.                                  *)
(***************************************************************************)
\* Generate is enabled while the next primary key is at most this
MaxSessionId == 5

\* now: Tuesday 10:00 and Tuesday 20:00 UTC
RegenNows == {MinutesPerDay + 10 * 60, MinutesPerDay + 20 * 60}

\* User.timezone as minutes east of UTC: UTC and Asia/Shanghai
Timezones == {0, 8 * 60}

SessionRow(id, user_id, start_time, end_time, status, locked) ==
    [id |-> id, user_id |-> user_id, subject_id |-> 2,
     start_time |-> start_time, end_time |-> end_time,
     status |-> status, task_id |-> NoTask,
     completed |-> (status = "completed"), locked |-> locked]

\* the user's session of 05:00 to 06:00 on the day of t, or none
MorningRows(t) ==
    {{}} \cup
    {{SessionRow(1, 1, DateOf(t) * MinutesPerDay + 5 * 60,
                 DateOf(t) * MinutesPerDay + 6 * 60, v[1], v[2])} :
        v \in {<<"planned", FALSE>>, <<"missed", FALSE>>,
               <<"completed", FALSE>>, <<"planned", TRUE>>}}

\* the user's session of 17:00 to 18:00 on the day of t, or none
EveningRows(t) ==
    {{}} \cup
    {{SessionRow(2, 1, DateOf(t) * MinutesPerDay + 17 * 60,
                 DateOf(t) * MinutesPerDay + 18 * 60, v[1], v[2])} :
        v \in {<<"planned", FALSE>>, <<"completed", FALSE>>,
               <<"canceled", FALSE>>, <<"completed", TRUE>>}}

\* the user's session of 17:00 to 18:00 on the day before t, or none
YesterdayRows(t) ==
    {{}} \cup
    {{SessionRow(3, 1, (DateOf(t) - 1) * MinutesPerDay + 17 * 60,
                 (DateOf(t) - 1) * MinutesPerDay + 18 * 60, v[1], v[2])} :
        v \in {<<"planned", FALSE>>, <<"missed", TRUE>>}}

\* another user's planned session of 17:00 to 18:00 on the day of t, or none
OtherUserRows(t) ==
    {{}, {SessionRow(4, 2, DateOf(t) * MinutesPerDay + 17 * 60,
                     DateOf(t) * MinutesPerDay + 18 * 60, "planned", FALSE)}}

RegenInit ==
    /\ pc = "db"
    /\ NoAllocInput
    /\ now \in RegenNows
    /\ \E p \in {q \in Profiles : q.pref # WeekdayPref}, tz \in Timezones,
          hours \in StudyHours \ {14} :
          /\ user = UserOf(tz, hours, p.times)
          /\ pref = p.pref
          /\ tasks = IF hours = 0 THEN <<>> ELSE <<UrgentProject(now, 60)>>
    /\ subjects = <<Capstone, History>>
    /\ constraints = {}
    /\ class_blocks = {}
    /\ makeup_queue = {}
    /\ \E a \in MorningRows(now), b \in EveningRows(now),
          c \in YesterdayRows(now), d \in OtherUserRows(now) :
          sessions = a \cup b \cup c \cup d
    /\ next_id = 5
    /\ last = NoOp

\* the rows generate() commits after the delete: none when the schedule is
\* empty, else those of save_schedule_to_db
saved_sessions(g, first_id) ==
    IF g.schedule = <<>> THEN {}
    ELSE save_schedule_to_db(g.schedule, g.task_allocated_minutes, first_id)

\* the database and the summary of a request once the schedule g is generated
generate_result(db, kept, first_id, start_date, end_date, delete_from, g, created) ==
    [sessions |-> kept \cup created,
     next_id |-> first_id + Cardinality(created),
     last |-> [op |-> "generate",
               no_subjects |-> FALSE,
               before |-> db,
               start_date |-> start_date,
               end_date |-> end_date,
               delete_from |-> delete_from,
               urgent_warning |-> check_urgent_task_coverage,
               schedule |-> g.schedule,
               created |-> {x.id : x \in created}]]

\* the commit of generate(): the rows of the schedule g join the kept rows
commit_schedule(db, kept, first_id, start_date, end_date, delete_from, g) ==
    generate_result(db, kept, first_id, start_date, end_date, delete_from,
                    g, saved_sessions(g, first_id))

\* generate(): the form fields are start_date (a local day, NoDate when
\* absent) and days; db is the StudySession table, first_id its next key
generate(db, first_id, start_date_str, days, fp) ==
    IF subjects = <<>>
    THEN [sessions |-> db, next_id |-> first_id,
          last |-> [op |-> "generate", no_subjects |-> TRUE]]
    ELSE
      LET current_time_local == utc_to_local(now, user.timezone)
          start_date ==
              IF start_date_str = NoDate THEN now
              ELSE localize_to_utc(start_date_str * MinutesPerDay
                                     + TimeOf(current_time_local),
                                   user.timezone)
          delete_from ==
              IF start_date_str = NoDate THEN local_midnight_utc(start_date)
              ELSE localize_to_utc(start_date_str * MinutesPerDay, user.timezone)
          end_date == start_date + days * MinutesPerDay
          kept == db \ cleared_sessions(db, delete_from)
      IN commit_schedule(db, kept, first_id, start_date, end_date, delete_from,
                         generate_schedule(kept, start_date, end_date, fp))

\* POST /scheduler/generate
Generate ==
    /\ pc = "db"
    /\ next_id <= MaxSessionId
    /\ \E start_date_str \in {NoDate, DateOf(utc_to_local(now, user.timezone)) + 1},
          days \in 0..MaxDays, fp \in ScheduleFloatOutcomes :
          \E r \in {generate(sessions, next_id, start_date_str, days, fp)} :
              /\ sessions' = r.sessions
              /\ next_id' = r.next_id
              /\ last' = r.last
    /\ UNCHANGED <<pc, allocVars, now, worldVars>>

NextRegen == Generate

SpecRegen == RegenInit /\ [][NextRegen]_vars

Regenerated == last.op = "generate" /\ ~last.no_subjects

\* [start_time, end_time) of x and of y intersect
Overlap(x, y) == x.start_time < y.end_time /\ y.start_time < x.end_time

\* the rows a regeneration inserted
CreatedSessions == {x \in sessions : x.id \in last.created}

\* C32: no session is linked to a task that is past due for the session's
\* date: a task-linked session that build_daily_schedule made for day d links
\* an incomplete task due on d or d+1, and a row that save_schedule_to_db
\* inserted with a task_id links a task whose deadline date is not before the
\* day the row starts.
C32_NoPastDueTaskLinked ==
    Regenerated =>
        /\ \A k \in DOMAIN last.schedule :
              last.schedule[k].task_id # NoTask =>
                  \E i \in DOMAIN tasks :
                      /\ tasks[i].id = last.schedule[k].task_id
                      /\ ~tasks[i].completed
                      /\ DateOf(tasks[i].deadline) - DateOf(last.schedule[k].start_time)
                            \in {0, 1}
        /\ \A x \in CreatedSessions :
              x.task_id # NoTask =>
                  \E i \in DOMAIN tasks :
                      /\ tasks[i].id = x.task_id
                      /\ tasks[i].deadline # NoDate
                      /\ DateOf(tasks[i].deadline) >= DateOf(x.start_time)

\* a regeneration for the day after the unfinished task was due: it inserted a
\* row of the task's subject, and the row carries no task
C32_Witness ==
    /\ Regenerated
    /\ tasks # <<>>
    /\ ~tasks[1].completed
    /\ DateOf(last.start_date) > DateOf(tasks[1].deadline)
    /\ \E y \in CreatedSessions :
          /\ y.subject_id = tasks[1].subject_id
          /\ y.task_id = NoTask
          /\ DateOf(y.start_time) > DateOf(tasks[1].deadline)

\* C1: after a regeneration no session it inserted overlaps another session of
\* the user that is not canceled, be it new or preserved (locked, completed or
\* outside the deleted set).
C1_NoOverlapAfterRegeneration ==
    Regenerated =>
        \A x, y \in sessions :
            (/\ x.id \in last.created
             /\ y.id # x.id
             /\ y.user_id = user.id
             /\ y.status # "canceled")
                => ~Overlap(x, y)

\* C3: a regeneration neither deletes nor changes a session of the user that
\* is locked or completed, whatever its date: the row is in the database
\* unchanged after it.
C3_LockedAndCompletedPreserved ==
    [][\A x \in sessions :
          (x.locked \/ x.status = "completed") => x \in sessions']_vars

\* a regeneration that deleted a session and inserted new ones while a locked
\* and a completed session inside the cleared range stayed
C3_Witness ==
    /\ Regenerated
    /\ last.created # {}
    /\ last.before \ sessions # {}
    /\ \E x \in last.before \cap sessions :
          x.user_id = user.id /\ x.locked /\ x.start_time >= last.delete_from
    /\ \E x \in last.before \cap sessions :
          /\ x.user_id = user.id /\ ~x.locked /\ x.status = "completed"
          /\ x.start_time >= last.delete_from

\* C4: a regeneration deletes, before it inserts, every earlier session of the
\* user that is unlocked, planned or missed, and starts on a day the generator
\* schedules (the day of start_date to the day of end_date).
C4_TargetRangeCleared ==
    Regenerated =>
        \A x \in last.before :
            (/\ x.user_id = user.id
             /\ ~x.locked
             /\ x.status \in {"planned", "missed"}
             /\ DateOf(x.start_time) \in
                    DateOf(last.start_date)..DateOf(last.end_date))
                => x \notin sessions

(***************************************************************************)
(* SpecRange: POST /scheduler/generate on a database that holds sessions   *)
(* before and well after the days the request asks for.                    *)
(***************************************************************************)
\* the days between the request's last day and the later sessions
DaysAfterRange == 3

\* the user's session of 17:00 to 18:00, DaysAfterRange days after the day
\* of t, or none
LaterRows(t) ==
    {{}} \cup
    {{SessionRow(1, 1, (DateOf(t) + DaysAfterRange) * MinutesPerDay + 17 * 60,
                 (DateOf(t) + DaysAfterRange) * MinutesPerDay + 18 * 60,
                 v[1], v[2])} :
        v \in {<<"planned", FALSE>>, <<"missed", FALSE>>,
               <<"completed", FALSE>>, <<"planned", TRUE>>,
               <<"canceled", FALSE>>}}

\* another user's planned session at the same later time, or none
OtherUserLaterRows(t) ==
    {{}, {SessionRow(4, 2, (DateOf(t) + DaysAfterRange) * MinutesPerDay + 17 * 60,
                     (DateOf(t) + DaysAfterRange) * MinutesPerDay + 18 * 60,
                     "planned", FALSE)}}

RangeInit ==
    /\ pc = "db"
    /\ NoAllocInput
    /\ now \in RegenNows
    /\ \E p \in {q \in Profiles : q.pref # WeekdayPref}, tz \in Timezones :
          /\ user = UserOf(tz, 4, p.times)
          /\ pref = p.pref
    /\ tasks = <<UrgentProject(now, 60)>>
    /\ subjects = <<Capstone, History>>
    /\ constraints = {}
    /\ class_blocks = {}
    /\ makeup_queue = {}
    /\ \E a \in LaterRows(now), c \in YesterdayRows(now),
          d \in OtherUserLaterRows(now) :
          sessions = a \cup c \cup d
    /\ next_id = 5
    /\ last = NoOp

SpecRange == RangeInit /\ [][NextRegen]_vars

\* the session x starts on a local day of the user that is none of the days
\* of the request: before the local midnight that begins the day of
\* start_date, or after the one that ends the day of end_date
OutsideRange(x, start_date, end_date) ==
    \/ x.start_time < local_midnight_utc(start_date)
    \/ x.start_time >= local_midnight_utc(end_date) + MinutesPerDay

\* C39: a regeneration for a range of days leaves every session of the user
\* that starts outside the range in the database unchanged, unlocked planned
\* and missed sessions after the range's last day among them
C39_OutsideRangeUntouched ==
    [][(last'.op = "generate" /\ ~last'.no_subjects) =>
          \A x \in sessions :
              (/\ x.user_id = user.id
               /\ OutsideRange(x, last'.start_date, last'.end_date))
                  => x \in sessions']_vars

(***************************************************************************)
(* SpecSessions: the handlers that change single sessions, and the         *)
(* mark_missed job, interleaved while the clock advances.                  *)
(***************************************************************************)
MaxTicks == 3



SessionsStart == MinutesPerDay + 10 * 60

UserIds == {1, 2}

\* StudyPreference.grace_minutes: no preference row, 0, 15 and 60
GracePrefs ==
    {NoPref} \cup {[SamplePref EXCEPT !.grace_minutes = g] : g \in {0, 15, 60}}

\* status names a session_details form can carry, one of them not a status
StatusNames == SessionStatus \cup {"done"}

\* two sessions of user 1, ending 30 minutes before and 15 minutes after the
\* start, and one of user 2
SessionsRows(t) ==
    {SessionRow(1, 1, t - 90, t - 30, "planned", FALSE),
     SessionRow(2, 1, t - 45, t + 15, "planned", FALSE),
     SessionRow(3, 2, t - 90, t - 30, "planned", FALSE)}

SessionsInit ==
    /\ pc = "sessions"
    /\ NoAllocInput
    /\ now = SessionsStart
    /\ \E uid \in UserIds :
          user = [UserOf(0, 4, DefaultPreferredTimes) EXCEPT !.id = uid]
    /\ pref \in GracePrefs
    /\ subjects = <<Capstone, History>>
    /\ tasks = <<Reading(now, 3)>>
    /\ constraints = {}
    /\ class_blocks = {}
    /\ makeup_queue = {}
    /\ sessions = SessionsRows(now)
    /\ next_id = 4
    /\ last = NoOp

\* the current user's own session with this id exists (else 404, or the
\* permission check sends the request away)
OwnSession(session_id) ==
    \E x \in session_by_id(sessions, session_id) : x.user_id = user.id

Tick ==
    /\ pc = "sessions"
    /\ now < SessionsStart + MaxTicks * 15
    /\ now' = now + 15
    /\ last' = [op |-> "tick"]
    /\ UNCHANGED <<pc, allocVars, worldVars, sessions, next_id>>

\* what the same job returned when it was also the operation just before this
\* one, else -1
PreviousCount(op) == IF last.op = op THEN last.count ELSE -1

MarkMissed ==
    /\ pc = "sessions"
    /\ \E r \in {mark_missed_sessions(sessions, user.id, mark_missed_grace_minutes)} :
          /\ sessions' = r.sessions
          /\ last' = [op |-> "mark_missed_sessions", user_id |-> user.id,
                      grace_minutes |-> mark_missed_grace_minutes,
                      count |-> r.count,
                      repeat_of |-> PreviousCount("mark_missed_sessions")]
    /\ UNCHANGED <<pc, allocVars, now, worldVars, next_id>>

SessionDetails ==
    /\ pc = "sessions"
    /\ \E session_id \in 1..(next_id - 1), status_str \in StatusNames,
          task_id \in {NoTask} \cup task_ids :
          /\ OwnSession(session_id)
          /\ sessions' = session_details(sessions, session_id, status_str, task_id)
          /\ last' = [op |-> "session_details", id |-> session_id]
    /\ UNCHANGED <<pc, allocVars, now, worldVars, next_id>>

DeleteSession ==
    /\ pc = "sessions"
    /\ \E session_id \in 1..(next_id - 1) :
          /\ OwnSession(session_id)
          /\ sessions' = delete_session(sessions, session_id)
          /\ last' = [op |-> "delete_session", id |-> session_id]
    /\ UNCHANGED <<pc, allocVars, now, worldVars, next_id>>

ToggleLock ==
    /\ pc = "sessions"
    /\ \E session_id \in 1..(next_id - 1) :
          /\ OwnSession(session_id)
          /\ sessions' = toggle_lock(sessions, session_id)
          /\ last' = [op |-> "toggle_lock", id |-> session_id]
    /\ UNCHANGED <<pc, allocVars, now, worldVars, next_id>>

MarkCompleted ==
    /\ pc = "sessions"
    /\ \E session_id \in 1..(next_id - 1) :
          /\ OwnSession(session_id)
          /\ sessions' = mark_completed(sessions, session_id)
          /\ last' = [op |-> "mark_completed", id |-> session_id]
    /\ UNCHANGED <<pc, allocVars, now, worldVars, next_id>>

NextSessions ==
    \/ Tick
    \/ MarkMissed
    \/ SessionDetails
    \/ DeleteSession
    \/ ToggleLock
    \/ MarkCompleted

SpecSessions == SessionsInit /\ [][NextSessions]_vars

\* C7: mark_missed_sessions(user, grace) turns to missed exactly the sessions
\* of that user that are planned, unlocked and ended grace minutes ago or
\* earlier, returns how many they are, and leaves every other session as it
\* was.
C7_MarkMissedExact ==
    [][last'.op = "mark_missed_sessions" =>
          LET due == {x \in sessions :
                         /\ x.user_id = last'.user_id
                         /\ x.status = "planned"
                         /\ ~x.locked
                         /\ x.end_time + last'.grace_minutes <= now}
          IN /\ sessions' = (sessions \ due) \cup
                                {[x EXCEPT !.status = "missed"] : x \in due}
             /\ last'.count = Cardinality(due)]_vars

\* mark_missed_sessions has just marked a session while a locked planned
\* session of the same user and a session of another user, both past the
\* grace period, stayed planned
C7_Witness ==
    /\ last.op = "mark_missed_sessions"
    /\ last.count >= 1
    /\ \E x \in sessions : x.user_id = last.user_id /\ x.status = "missed"
    /\ \E x \in sessions :
          /\ x.user_id = last.user_id /\ x.locked /\ x.status = "planned"
          /\ x.end_time + last.grace_minutes <= now
    /\ \E x \in sessions :
          /\ x.user_id # last.user_id /\ ~x.locked /\ x.status = "planned"
          /\ x.end_time + last.grace_minutes <= now

\* C15: under any sequence of mark_completed, session_details and
\* mark_missed_sessions a session's status changes only out of planned (to
\* completed, missed or canceled); a session that is completed or missed
\* never takes another status afterwards.
C15_StatusOnlyLeavesPlanned ==
    [][\A x \in sessions : \A y \in sessions' :
          (x.id = y.id /\ x.status # y.status) =>
              /\ x.status = "planned"
              /\ y.status \in {"completed", "missed", "canceled"}]_vars

\* C16: the delete and the insert of a regeneration are one atomic step: when
\* the request ends with no session inserted (generate_schedule returned no
\* session), the user's unlocked planned and missed sessions it found are
\* still present.
C16_DeleteInsertAtomic ==
    (Regenerated /\ last.created = {}) =>
        \A x \in last.before :
            (/\ x.user_id = user.id
             /\ ~x.locked
             /\ x.status \in {"planned", "missed"}) => x \in sessions

\* C38: after any sequence of session operations every session's legacy
\* completed flag is true exactly when its status is completed
C38_CompletedFlagMatchesStatus ==
    \A x \in sessions : x.completed <=> (x.status = "completed")

(***************************************************************************)
(* SpecMakeup: the mark_missed and cleanup_expired jobs and                *)
(* queue_missed_sessions_for_makeup, interleaved while the days pass.      *)
(***************************************************************************)
MaxMakeupDays == 2

\* queue_missed_sessions_for_makeup is called while every entry holds fewer
\* minutes than this
MaxMakeupMinutes == 120

\* days_to_expire: today, tomorrow and the default
DaysToExpire == {0, 1, 7}

\* a session of user 1 that was missed, one that is planned and past its
\* grace period, and a missed session of user 2
MakeupRows(t) ==
    {SessionRow(1, 1, t - 90, t - 30, "missed", FALSE),
     [SessionRow(2, 1, t - 120, t - 60, "planned", FALSE) EXCEPT !.subject_id = 1],
     SessionRow(3, 2, t - 90, t - 30, "missed", FALSE)}

\* entries left by earlier calls: one that expired yesterday, one that
\* expires today and one that expires tomorrow
MakeupQueues(today) ==
    SUBSET {[id |-> 1, user_id |-> 1, subject_id |-> 2, minutes |-> 30,
             expires_at |-> today - 1],
            [id |-> 2, user_id |-> 2, subject_id |-> 2, minutes |-> 30,
             expires_at |-> today],
            [id |-> 3, user_id |-> 1, subject_id |-> 1, minutes |-> 30,
             expires_at |-> today + 1]}

MakeupInit ==
    /\ pc = "sessions"
    /\ NoAllocInput
    /\ now = SessionsStart
    /\ \E uid \in UserIds :
          user = [UserOf(0, 4, DefaultPreferredTimes) EXCEPT !.id = uid]
    /\ pref = NoPref
    /\ subjects = <<Capstone, History>>
    /\ tasks = <<>>
    /\ constraints = {}
    /\ class_blocks = {}
    /\ makeup_queue \in MakeupQueues(DateOf(now))
    /\ sessions = MakeupRows(now)
    /\ next_id = 4
    /\ last = NoOp

NextDay ==
    /\ pc = "sessions"
    /\ now < SessionsStart + MaxMakeupDays * MinutesPerDay
    /\ now' = now + MinutesPerDay
    /\ last' = [op |-> "tick"]
    /\ UNCHANGED <<pc, allocVars, worldVars, sessions, next_id>>

QueueMissed ==
    /\ pc = "sessions"
    /\ \A e \in makeup_queue : e.minutes < MaxMakeupMinutes
    /\ \E days_to_expire \in DaysToExpire :
          /\ makeup_queue' = queue_missed_sessions_for_makeup(
                                 sessions, makeup_queue, user.id, days_to_expire)
          /\ last' = [op |-> "queue_missed_sessions_for_makeup",
                      days_to_expire |-> days_to_expire]
    /\ UNCHANGED <<pc, allocVars, now, profileVars, sessions, next_id>>

\* POST /jobs/cleanup_expired
CleanupExpired ==
    /\ pc = "sessions"
    /\ \E r \in {cleanup_expired_makeup_queue(makeup_queue)} :
          /\ makeup_queue' = r.makeup_queue
          /\ last' = [op |-> "cleanup_expired_makeup_queue", count |-> r.count,
                      repeat_of |-> PreviousCount("cleanup_expired_makeup_queue")]
    /\ UNCHANGED <<pc, allocVars, now, profileVars, sessions, next_id>>

NextMakeup ==
    \/ NextDay
    \/ MarkMissed
    \/ QueueMissed
    \/ CleanupExpired

SpecMakeup == MakeupInit /\ [][NextMakeup]_vars

\* C17: cleanup_expired_makeup_queue deletes exactly the MakeupQueue entries
\* with expires_at < today and returns their count; an entry with
\* expires_at >= today, expires_at = today included, is left unchanged, and
\* so is every session.
C17_CleanupExact ==
    [][last'.op = "cleanup_expired_makeup_queue" =>
          LET today == DateOf(now)
              expired == {e \in makeup_queue : e.expires_at < today}
          IN /\ makeup_queue' = {e \in makeup_queue : e.expires_at >= today}
             /\ last'.count = Cardinality(expired)
             /\ sessions' = sessions]_vars

\* C17 witness: a cleanup has just removed entries and has left one that
\* expires today and one that expires later
C17_Witness ==
    /\ last.op = "cleanup_expired_makeup_queue"
    /\ last.count >= 1
    /\ \E e \in makeup_queue : e.expires_at = DateOf(now)
    /\ \E e \in makeup_queue : e.expires_at > DateOf(now)

\* C18: mark_missed and cleanup_expired_makeup are idempotent: a second call
\* of either, right after the first with the same clock and nothing changed
\* in between, returns 0 and leaves every session and every makeup entry as
\* the first call left it.
C18_JobsIdempotent ==
    [][(\/ /\ last.op = "mark_missed_sessions"
           /\ last'.op = "mark_missed_sessions"
        \/ /\ last.op = "cleanup_expired_makeup_queue"
           /\ last'.op = "cleanup_expired_makeup_queue") =>
          /\ last'.count = 0
          /\ sessions' = sessions
          /\ makeup_queue' = makeup_queue]_vars

\* C18 witness: mark_missed has just run a second time, right after a run
\* that marked a session, while the makeup queue holds entries
C18_Witness ==
    /\ last.op = "mark_missed_sessions"
    /\ last.repeat_of >= 1
    /\ last.count = 0
    /\ makeup_queue # {}
    /\ \E x \in sessions : x.user_id = last.user_id /\ x.status = "missed"

\* the total duration of the missed sessions of the user and subject
MissedMinutes(user_id, subject_id) ==
    LET minutes == subject_minutes(sessions, user_id)
    IN IF subject_id \in DOMAIN minutes THEN minutes[subject_id] ELSE 0

\* every unexpired entry of the user in the queue holds no more minutes than
\* the user's missed sessions of the entry's subject last
WithinMissedMinutes(queue, user_id) ==
    \A e \in queue :
        (e.user_id = user_id /\ e.expires_at >= DateOf(now))
            => e.minutes <= MissedMinutes(user_id, e.subject_id)

\* C37: each missed session's minutes are added to the makeup queue at most
\* once: a call of queue_missed_sessions_for_makeup on a queue whose unexpired
\* entries of the user hold no more than the missed sessions' minutes leaves
\* such a queue, so that after any sequence of calls no entry exceeds the
\* total duration of the user's missed sessions of its subject
C37_MissedMinutesQueuedOnce ==
    [][(/\ last'.op = "queue_missed_sessions_for_makeup"
        /\ WithinMissedMinutes(makeup_queue, user.id))
          => WithinMissedMinutes(makeup_queue', user.id)]_vars

(***************************************************************************)
(* SpecConfig: generate_schedule and check_urgent_task_coverage for users  *)
(* whose preferred_study_times column holds any text and whose             *)
(* StudyPreference row may be absent.                                      *)
(***************************************************************************)
TimeOfDayNames == {"morning", "afternoon", "evening", "night"}

\* the texts of the column: empty, no JSON, the JSON of a list, and the
\* JSON of maps: of every time of day, of none, of one, of an unknown key
StoredTimes ==
    {[kind |-> "null"], [kind |-> "invalid"], [kind |-> "array"]}
      \cup {json_dumps(m) : m \in [TimeOfDayNames -> BOOLEAN]}
      \cup {json_dumps(<<>>), json_dumps([morning |-> TRUE]),
            json_dumps([dawn |-> TRUE]),
            json_dumps([dawn |-> FALSE, evening |-> TRUE])}

ConfigInit ==
    /\ pc = "ready"
    /\ NoAllocInput
    /\ now \in GenNows
    /\ \E text \in StoredTimes :
          user = [UserOf(0, 4, DefaultPreferredTimes)
                    EXCEPT !.preferred_study_times = text]
    /\ pref \in {NoPref, SamplePref, WeekdayPref}
    /\ subjects = <<Capstone, History>>
    /\ tasks \in {<<>>, <<UrgentProject(now, 60)>>}
    /\ constraints = {}
    /\ class_blocks = {}
    /\ makeup_queue = {}
    /\ sessions = {}
    /\ next_id = 1
    /\ last = NoOp

SpecConfig == ConfigInit /\ [][NextGen]_vars

\* the stored text is the JSON of a map of the four times of day to booleans
WellFormedTimes ==
    /\ user.preferred_study_times.kind = "object"
    /\ DOMAIN user.preferred_study_times.value = TimeOfDayNames

\* the candidates of day d of a user who prefers the evening only
EveningCandidates(d) == SortedSeqOfSet(extend_range(d, 17, 21))

\* C22: generation never fails over absent or malformed configuration:
\* without a StudyPreference the session is 60 minutes, the break 15 and the
\* consecutive cap 2 hours, and with a preferred-times text that is not a
\* map of the four times of day to booleans the candidates of a day are
\* those of the evening
C22_DefaultsNeverFail ==
    /\ last.op # "generate_schedule raises"
    /\ pref = NoPref =>
          /\ get_session_length = 60
          /\ get_break_duration = 15
          /\ get_max_consecutive_hours = 2
    /\ ~WellFormedTimes =>
          \A d \in DateOf(now)..(DateOf(now) + MaxDays) :
              \/ Weekday(d) >= 5 /\ pref # NoPref /\ ~pref.weekend_study
              \/ available_hours_raise(d)
              \/ get_available_hours(d) = EveningCandidates(d)

(***************************************************************************)
(* SpecWeights: calculate_subject_weights for one subject with an exam     *)
(* date and up to two tasks around today.                                  *)
(***************************************************************************)
\* days from today to the exam
ExamOffsets == {-1, 0, 1, 7, 8, 14, 15, 30, 31}

\* days from today to a task's deadline
DeadlineOffsets == {-1, 0, 1, 2, 3, 4, 7, 8}

\* now: Sunday 10:00
WeightsNow == 6 * MinutesPerDay + 10 * 60

DatesAt(offsets) == {NoDate} \cup {WeightsNow + k * MinutesPerDay : k \in offsets}

WeightTask(id, deadline, priority, completed) ==
    [id |-> id, subject_id |-> 1, user_id |-> 1, deadline |-> deadline,
     estimated_time |-> 60, priority |-> priority, completed |-> completed,
     created_at |-> 0]

FirstTasks ==
    {WeightTask(1, d, p, c) :
        d \in DatesAt(DeadlineOffsets), p \in {0, 1, 5}, c \in BOOLEAN}

SecondTasks ==
    {WeightTask(2, d, p, FALSE) : d \in DatesAt({0, 2}), p \in {0, 5}}

WeightsInit ==
    /\ pc = "ready"
    /\ NoAllocInput
    /\ now = WeightsNow
    /\ user = UserOf(0, 4, DefaultPreferredTimes)
    /\ pref = NoPref
    /\ \E priority \in {1, 5}, difficulty \in {0, 3}, exam_date \in DatesAt(ExamOffsets) :
          subjects = <<[id |-> 1, priority |-> priority,
                        difficulty |-> difficulty, exam_date |-> exam_date]>>
    /\ tasks \in {<<>>} \cup {<<a>> : a \in FirstTasks}
                   \cup {<<a, b>> : a \in FirstTasks, b \in SecondTasks}
    /\ constraints = {}
    /\ class_blocks = {}
    /\ makeup_queue = {}
    /\ sessions = {}
    /\ next_id = 1
    /\ last = NoOp

\* scheduler.calculate_subject_weights(); the weights are kept times 3
CalculateSubjectWeights ==
    /\ pc = "ready"
    /\ last' = [op |-> "calculate_subject_weights",
                weights3 |-> calculate_subject_weights]
    /\ pc' = "weighed"
    /\ UNCHANGED <<allocVars, now, worldVars, sessions, next_id>>

NextWeights == CalculateSubjectWeights

SpecWeights == WeightsInit /\ [][NextWeights]_vars

\* examBonus: 10, 5, 2 for an exam 1..7, 8..14, 15..30 days ahead, else 0
ExamBonus(subject) ==
    LET k == DateOf(subject.exam_date) - DateOf(now)
    IN IF subject.exam_date = NoDate THEN 0
       ELSE IF k \in 1..7 THEN 10
       ELSE IF k \in 8..14 THEN 5
       ELSE IF k \in 15..30 THEN 2
       ELSE 0

\* the base urgency of a deadline k days ahead
BaseUrgency(k) ==
    IF k < 0 THEN 100
    ELSE IF k = 0 THEN 90
    ELSE IF k = 1 THEN 50
    ELSE IF k \in 2..3 THEN 25
    ELSE IF k \in 4..7 THEN 10
    ELSE 0

\* three times taskUrgencyBonus: the largest base urgency times priority
\* (times 3 when the priority is not set) among the incomplete tasks of the
\* subject that have a deadline
TaskUrgencyBonus3(subject) ==
    LET S == {BaseUrgency(DateOf(tasks[i].deadline) - DateOf(now))
                * (IF tasks[i].priority # 0 THEN tasks[i].priority ELSE 3) :
              i \in {j \in DOMAIN tasks : /\ tasks[j].subject_id = subject.id
                                          /\ ~tasks[j].completed
                                          /\ tasks[j].deadline # NoDate}}
    IN IF S = {} THEN 0 ELSE CHOOSE m \in S : \A x \in S : x <= m

MaxWeekDays == 2

WeekInit ==
    /\ pc = "ready"
    /\ NoAllocInput
    /\ now = 10 * 60
    /\ \E p \in Profiles, hours \in {4, 14} :
          /\ user = UserOf(0, hours, p.times)
          /\ pref = p.pref
    /\ subjects = <<Capstone, History>>
    /\ tasks \in {<<>>, <<UrgentProject(now, 60)>>}
    /\ constraints \in SUBSET BusyTimes
    /\ class_blocks \in SUBSET Classes
    /\ makeup_queue = {}
    /\ sessions = {}
    /\ next_id = 1
    /\ last = NoOp

GenerateWeek == GenerateScheduleOver(2..MaxWeekDays)

NextWeek == GenerateWeek

SpecWeek == WeekInit /\ [][NextWeek]_vars

\* C29: over a whole run no subject has more than 2 generated sessions that
\* start in the same hour of day
C29_TwoPerHourOfDay ==
    Generated =>
        \A i \in DOMAIN last.schedule :
            Cardinality({j \in DOMAIN last.schedule :
                /\ last.schedule[j].subject_id = last.schedule[i].subject_id
                /\ HourOf(last.schedule[j].start_time)
                     = HourOf(last.schedule[i].start_time)}) <= 2

(***************************************************************************)
(* SpecRace: two POST /scheduler/generate requests of the same user whose  *)
(* steps (the committed delete, generate_schedule, save_schedule_to_db)    *)
(* interleave, or run one request after the other when the caller          *)
(* serializes them.                                                        *)
(***************************************************************************)
Requests == {1, 2}

\* start_date, end_date and delete_from of generate() for the form fields
request_dates(start_date_str, days) ==
    LET current_time_local == utc_to_local(now, user.timezone)
        start_date ==
            IF start_date_str = NoDate THEN now
            ELSE localize_to_utc(start_date_str * MinutesPerDay
                                   + TimeOf(current_time_local),
                                 user.timezone)
    IN [start_date |-> start_date,
        end_date |-> start_date + days * MinutesPerDay,
        delete_from |->
            IF start_date_str = NoDate THEN local_midnight_utc(start_date)
            ELSE localize_to_utc(start_date_str * MinutesPerDay, user.timezone)]

NoRequest == [none |-> TRUE]

RaceInit ==
    /\ pc = "requests"
    /\ NoAllocInput
    /\ now \in RegenNows
    /\ \E p \in {q \in Profiles : q.pref # WeekdayPref}, tz \in Timezones :
          /\ user = UserOf(tz, 4, p.times)
          /\ pref = p.pref
    /\ tasks \in {<<>>, <<UrgentProject(now, 60)>>}
    /\ subjects = <<Capstone, History>>
    /\ constraints = {}
    /\ class_blocks = {}
    /\ makeup_queue = {}
    /\ \E a \in MorningRows(now), d \in OtherUserRows(now) : sessions = a \cup d
    /\ next_id = 5
    /\ \E serialized \in BOOLEAN :
          last = [op |-> "requests",
                  serialized |-> serialized,
                  step |-> [r \in Requests |-> "idle"],
                  request |-> [r \in Requests |-> NoRequest],
                  generated |-> [r \in Requests |-> NoRequest],
                  created |-> [r \in Requests |-> {}]]

\* request r up to the commit of its delete; a serialized request waits
\* until the other one is through
ClearSessions(r) ==
    /\ pc = "requests"
    /\ last.step[r] = "idle"
    /\ last.serialized => \A q \in Requests : last.step[q] \in {"idle", "done"}
    /\ subjects # <<>>
    /\ \E start_date_str \in {NoDate, DateOf(utc_to_local(now, user.timezone)) + 1},
          days \in 0..MaxDays :
          \E dates \in {request_dates(start_date_str, days)} :
              /\ sessions' = sessions \ cleared_sessions(sessions, dates.delete_from)
              /\ last' = [last EXCEPT !.step[r] = "cleared",
                                      !.request[r] = dates]
    /\ UNCHANGED <<pc, allocVars, now, worldVars, next_id>>

\* schedule_generator.generate_schedule() of request r
GenerateRequest(r) ==
    /\ pc = "requests"
    /\ last.step[r] = "cleared"
    /\ \E fp \in ScheduleFloatOutcomes :
          last' = [last EXCEPT
                      !.step[r] = "generated",
                      !.generated[r] = generate_schedule(sessions,
                                           last.request[r].start_date,
                                           last.request[r].end_date, fp)]
    /\ UNCHANGED <<pc, allocVars, now, worldVars, sessions, next_id>>

\* the end of request r: save_schedule_to_db unless the schedule is empty
SaveSchedule(r) ==
    /\ pc = "requests"
    /\ last.step[r] = "generated"
    /\ \E created \in {saved_sessions(last.generated[r], next_id)} :
          /\ sessions' = sessions \cup created
          /\ next_id' = next_id + Cardinality(created)
          /\ last' = [last EXCEPT !.step[r] = "done",
                                  !.created[r] = {x.id : x \in created}]
    /\ UNCHANGED <<pc, allocVars, now, worldVars>>

NextRace ==
    \E r \in Requests : ClearSessions(r) \/ GenerateRequest(r) \/ SaveSchedule(r)

SpecRace == RaceInit /\ [][NextRace]_vars

\* both requests are through and a planned session of the one overlaps a
\* planned session of the other
BothRunsOverlap ==
    /\ \A r \in Requests : last.step[r] = "done"
    /\ \E x, y \in sessions :
          /\ x.id \in last.created[1]
          /\ y.id \in last.created[2]
          /\ x.status = "planned"
          /\ y.status = "planned"
          /\ Overlap(x, y)

\* C36: two regenerations of one user that are not serialized can leave the
\* sessions of both runs in the database, planned and overlapping; when each
\* regeneration is through before the other starts, no such state is reached
C36_SerializedRunsDoNotOverlap ==
    last.serialized => ~BothRunsOverlap

(***************************************************************************)
(* SpecRun: generate_schedule step by step.  pc is the position in the     *)
(* run: "ready" before the call, "day" at the test of the while loop over  *)
(* the days, "urgent" and "regular" at the tests of the two while loops of *)
(* build_daily_schedule, "returned" after the return.  last holds the      *)
(* locals of the run.                                                      *)
(***************************************************************************)
RunTasks(t) ==
    {<<>>, <<UrgentProject(t, 60)>>, <<UrgentProject(t, 300)>>,
     <<UrgentProject(t, 120), Reading(t, 1)>>,
     <<UrgentProject(t, 300), Reading(t, 1)>>}

RunInit ==
    /\ pc = "ready"
    /\ NoAllocInput
    /\ now = 10 * 60
    /\ \E p \in {q \in Profiles : q.pref # WeekdayPref}, hours \in {0, 4} :
          /\ user = UserOf(0, hours, p.times)
          /\ pref = p.pref
    /\ subjects = <<Capstone, History>>
    /\ tasks \in RunTasks(now)
    /\ constraints \in SUBSET BusyTimes
    /\ class_blocks = {}
    /\ makeup_queue = {}
    /\ sessions \in SUBSET {LockedSeed(now)}
    /\ next_id = 2
    /\ last = NoOp

\* urgent_iterations += 1
count_iteration(iterations) == iterations + 1

\* regular_iterations += 1 that leaves the counter as it is
same_regular_iteration(regular_iterations) == regular_iterations

\* regular_iterations += 1
count_regular_iteration(regular_iterations) == regular_iterations + 1

\* the test of the while loop over urgent_tasks
urgent_loop_goes_on(st, urgent_tasks) ==
    /\ st.urgent_task_index < Len(urgent_tasks)
    /\ st.urgent_iterations < Len(urgent_tasks) * 10

\* the body of the while loop over urgent_tasks, once
urgent_iteration(st, urgent_tasks) ==
    LET s1 == [st EXCEPT !.urgent_iterations = count_iteration(@)]
        task_info == urgent_tasks[st.urgent_task_index + 1]
        task == task_info.task
        subject_id == task_info.subject_id
        is_urgent == task.deadline # NoDate
                        /\ DateOf(task.deadline) <= st.target_date + 1
        s2 == with_free_slots(s1, 30)
        r == schedule_chunks(s2, urgent_tasks, task_info,
                             task_chunks(task_info.estimated_minutes))
    IN
    IF subject_id \notin DOMAIN s1.remaining_allocation
    THEN [s1 EXCEPT !.urgent_task_index = @ + 1]
    ELSE IF s1.remaining_allocation[subject_id] <= 0 /\ ~is_urgent
    THEN [s1 EXCEPT !.urgent_task_index = @ + 1]
    ELSE IF s2.available_slots = <<>>
    THEN [s2 EXCEPT !.urgent_task_index = @ + 1]
    ELSE IF r.task_completed \/ r.switched_subject
    THEN [r.st EXCEPT !.urgent_task_index = @ + 1]
    ELSE r.st

\* the test of the while loop over regular_subjects
regular_loop_goes_on(st, regular_subjects, current_subject_index, regular_iterations) ==
    /\ current_subject_index < Len(regular_subjects)
    /\ st.available_slots # <<>>
    /\ regular_iterations < Len(regular_subjects) * 50

\* the body of the while loop over regular_subjects, once; its break on an
\* empty slot list leaves the list empty, which ends the loop at the test
regular_iteration(st, regular_subjects, current_subject_index) ==
    LET subject_id == regular_subjects[current_subject_index + 1]
        base_session_minutes == get_session_length
    IN IF st.remaining_allocation[subject_id] <= 0 THEN st
       ELSE schedule_round(with_free_slots(st, base_session_minutes), subject_id,
                Min(2, CeilDiv(st.remaining_allocation[subject_id],
                               base_session_minutes)))

\* the call: the allocations and the tracking before the first day
StartRun ==
    /\ pc = "ready"
    /\ \E days \in 0..MaxDays, fp \in ScheduleFloatOutcomes :
          LET end_date == now + days * MinutesPerDay
              total_subject_allocation == calculate_subject_allocation(end_date, fp)
          IN last' = [op |-> "run",
                      start_date |-> now,
                      end_date |-> end_date,
                      total_subject_allocation |-> total_subject_allocation,
                      daily_allocation |->
                          calculate_daily_allocation(total_subject_allocation,
                                                     days + 1),
                      g |-> initial_tracking(total_subject_allocation),
                      d |-> DateOf(now)]
    /\ pc' = "day"
    /\ UNCHANGED <<allocVars, now, worldVars, sessions, next_id>>

\* the tracking of the run after the day's sessions
day_done(run, days_since, day_sessions, task_allocated_minutes) ==
    LET tracked == update_tracking(day_sessions, run.g.hours_allocated, days_since)
    IN [op |-> "run",
        start_date |-> run.start_date,
        end_date |-> run.end_date,
        total_subject_allocation |-> run.total_subject_allocation,
        daily_allocation |-> run.daily_allocation,
        g |-> [schedule |-> extend_schedule(run.g.schedule, day_sessions),
               hours_allocated |-> tracked.hours_allocated,
               days_since_last_studied |-> tracked.days_since_last_studied,
               task_allocated_minutes |-> task_allocated_minutes],
        d |-> run.d + 1]

\* days_since_last_studied[subject_id] += 1 for every subject
days_since_today(run) ==
    [sid \in DOMAIN run.g.days_since_last_studied |->
        run.g.days_since_last_studied[sid] + 1]

\* the test of the while loop over the days, and a day up to the urgent loop
\* of build_daily_schedule; a day without a candidate start is done at once
BeginDay ==
    /\ pc = "day"
    /\ LET today_allocation ==
               calculate_today_allocation(last.total_subject_allocation,
                   keys_in_subject_order(last.total_subject_allocation),
                   last.g.hours_allocated, days_since_today(last),
                   last.daily_allocation, last.d)
           unblocked == filter_blocked_hours(sessions, last.d,
                                             get_available_hours(last.d))
       IN IF last.d > DateOf(last.end_date)
          THEN /\ pc' = "returned"
               /\ last' = [op |-> "run", start_date |-> last.start_date,
                           end_date |-> last.end_date,
                           total_subject_allocation |-> last.total_subject_allocation,
                           schedule |-> schedule_result(last.g).schedule]
          ELSE IF unblocked = <<>>
          THEN /\ pc' = "day"
               /\ last' = day_done(last, days_since_today(last), <<>>,
                                   last.g.task_allocated_minutes)
          ELSE /\ pc' = "urgent"
               /\ last' = [op |-> "run",
                           start_date |-> last.start_date,
                           end_date |-> last.end_date,
                           total_subject_allocation |-> last.total_subject_allocation,
                           daily_allocation |-> last.daily_allocation,
                           g |-> last.g,
                           d |-> last.d,
                           allocation_keys |-> today_allocation.keys,
                           urgent_tasks |-> urgent_tasks_of_day(last.d,
                                                last.g.task_allocated_minutes),
                           st |-> [available_slots |-> unblocked,
                                   booked_slots |->
                                       build_booked_slots(last.g.schedule, last.d),
                                   remaining_allocation |-> today_allocation.val,
                                   day_sessions |-> <<>>,
                                   task_allocated_minutes |->
                                       last.g.task_allocated_minutes,
                                   task_sessions_per_subject |->
                                       [sid \in Range(subject_ids) |-> 0],
                                   urgent_task_index |-> 0,
                                   urgent_iterations |-> 0,
                                   target_date |-> last.d]]
    /\ UNCHANGED <<allocVars, now, worldVars, sessions, next_id>>

\* the test of the while loop over urgent_tasks and one pass of its body, or
\* the step on to the regular subjects
UrgentIteration ==
    /\ pc = "urgent"
    /\ IF urgent_loop_goes_on(last.st, last.urgent_tasks)
       THEN /\ pc' = "urgent"
            /\ last' = [last EXCEPT !.st = urgent_iteration(@, last.urgent_tasks)]
       ELSE /\ pc' = "regular"
            /\ last' = [op |-> "run",
                        start_date |-> last.start_date,
                        end_date |-> last.end_date,
                        total_subject_allocation |-> last.total_subject_allocation,
                        daily_allocation |-> last.daily_allocation,
                        g |-> last.g,
                        d |-> last.d,
                        urgent_left |-> Len(last.urgent_tasks)
                                          - last.st.urgent_task_index,
                        st |-> last.st,
                        regular_subjects |->
                            regular_subjects_of(last.allocation_keys,
                                                last.urgent_tasks),
                        current_subject_index |-> 0,
                        regular_iterations |-> 0]
    /\ UNCHANGED <<allocVars, now, worldVars, sessions, next_id>>

\* the test of the while loop over regular_subjects and one pass of its
\* body, or the return of build_daily_schedule and the end of the day
RegularIteration ==
    /\ pc = "regular"
    /\ IF regular_loop_goes_on(last.st, last.regular_subjects,
                               last.current_subject_index, last.regular_iterations)
       THEN /\ pc' = "regular"
            /\ last' = [last EXCEPT
                  !.regular_iterations = count_regular_iteration(@),
                  !.st = regular_iteration(@, last.regular_subjects,
                                           last.current_subject_index),
                  !.current_subject_index = (@ + 1) % Len(last.regular_subjects)]
       ELSE /\ pc' = "day"
            /\ last' = day_done(last, days_since_today(last),
                                last.st.day_sessions,
                                last.st.task_allocated_minutes)
    /\ UNCHANGED <<allocVars, now, worldVars, sessions, next_id>>

NextRun == StartRun \/ BeginDay \/ UrgentIteration \/ RegularIteration

SpecRun == RunInit /\ [][NextRun]_vars

\* the interpreter keeps executing the run: weak fairness of NextRun.  The
\* run has a step to take in every position but "returned", so
\* WF_vars(NextRun) is written out as: the run has returned for good, or it
\* takes steps again and again
SpecRunFair ==
    SpecRun /\ (<>[](pc = "returned") \/ []<><<NextRun>>_vars)

\* the step-by-step run returns the schedule of generate_schedule
RunReturnsSchedule ==
    pc = "returned" =>
        last.schedule = schedule_allocation(sessions, last.start_date,
                            last.end_date, last.total_subject_allocation).schedule

\* C40: generate_schedule terminates: the loop over the urgent tasks with its
\* retries, the loop over the chunks and the round-robin loop over the
\* regular subjects each come to an end, every day of the range is processed
\* and the run returns
C40_RunReturns == <>(pc = "returned")

\* a run over two days has returned: the 300 minutes of the task due on the
\* first day were split into chunks, the last of which found no slot, and the
\* regular loop placed sessions as well
C40_Witness ==
    /\ pc = "returned"
    /\ DateOf(last.end_date) > DateOf(last.start_date)
    /\ tasks # <<>>
    /\ tasks[1].estimated_time = 300
    /\ SessionMinutesOfTask(last.schedule, 1) \in 1..299
    /\ \E k \in DOMAIN last.schedule : last.schedule[k].task_id = NoTask

====
